---- MODULE Spec2Model ----
(***************************************************************************)
(* A model of erez-monitor's metrics history store (storage.RingBuffer),   *)
(* the snapshot data model (models.Metrics and its Clone) and the          *)
(* collection orchestrator (collector.Collector).                          *)
(*                                                                         *)
(* Go pointers and slices are modelled by an explicit heap: objs maps the  *)
(* address of every live *models.Metrics to its struct value, arrs maps    *)
(* the address of every live slice backing array to its elements.  A nil   *)
(* pointer or nil slice is NIL.                                            *)
(***************************************************************************)
EXTENDS Integers, Sequences, FiniteSets, TLC

\* ---------------------------------------------------------------- bounds
\* capacity handed to NewRingBuffer by the model's client
Capacity == 3
\* most Add calls between two Clear calls
MaxAdds == 5
\* synthetic metric values the client puts in a snapshot are 1..MaxVal
MaxVal == 2
\* most field mutations the client applies to the snapshots it currently holds
MaxMutations == 1
\* goroutines that call Add concurrently, and Add calls each of them makes
NumProducers == 2
AddsPerProducer == 2
\* goroutines that read concurrently, and read calls each of them makes
NumConsumers == 2
ReadsPerConsumer == 1
\* most collect() calls in one run of the orchestrator
MaxCycles == 2
\* most adapter tasks, in one run, that outlast the ceiling of their cycle
MaxSlow == 1
\* most adapter tasks, in one run, that panic
MaxPanics == 1
\* how many adapters, in launch order, may be slow or panic
NumFaulty == 1
\* subscriber channels, their buffer size, and most registrations at a time
NumChans == 1
QueueCap == 1
MaxSubs == 2
\* goroutines that poll the orchestrator's GetLatest
NumReaders == 1
NumCallers == 2
MaxCalls == 4
NumRequesters == 3
MaxChecks == 3
NumRegistrants == 2
MaxRegisters == 3
MaxRequests == 3

\* ------------------------------------------------------------- constants
NIL == 0
\* value written by a caller that mutates a snapshot it holds
MutatedValue == 99
\* make(chan hotkeyRegistration, 10)
RegisterChCap == 10

VARIABLES
    objs,       \* heap: address -> models.Metrics struct
    arrs,       \* heap: address -> backing array of a slice
    rb,         \* the storage.RingBuffer fields data, size, head, count, capacity
    panicked,   \* TRUE once an operation hit a nil dereference or a bad index
    held,       \* the snapshots (addresses) the sequential client holds
    muts,       \* number of mutations applied to the held snapshots
    added,      \* history variable: deep values passed to Add since the last Clear
    lastOp,     \* history variable: the operation the last step performed
    before,     \* history variable: what the reads returned before the last client write
    agg,        \* the result of the client's last call, if it was GetAverage or GetMinMax
    mu,         \* rb.mu, the sync.RWMutex of the store: its writer and its readers
    pc,         \* concurrent clients: where each goroutine stands in its call
    reg,        \* concurrent clients: the value of rb.count each goroutine has read
    adds,       \* concurrent clients: Add calls each producer has completed
    reads,      \* concurrent clients: read calls each consumer has completed
    cfg,        \* Collector.config: the config.MonitoringConfig given to New
    gpuCollector, \* Collector.gpuCollector != nil
    running,    \* Collector.running
    ctl,        \* the one goroutine that calls Start and Stop, as the application
                \* does (App.Start, App.Stop): idle, starting, stopping
    loop,       \* the collectionLoop goroutine: none, select, collect
    ctx,        \* the context of Start: parentDone, done (the cancellable child)
    col,        \* the collect() call in progress: pc, caller, metrics, tasks, notify index
    late,       \* adapter tasks still running after their cycle timed out
    latestPtr,  \* Collector.latestPtr
    subscribers, \* Collector.subscribers
    chans,      \* the buffered subscriber channels and what they hold
    now,        \* the clock time.Now() reads
    cycles,     \* collect() calls started so far
    used,       \* slow and panicking adapter tasks so far
    pub,        \* history variable: one record per snapshot published to latestPtr
    finalized,  \* history variable: collect() calls that returned
    robs,       \* history variable: the last result each reader got from GetLatest, and
                \* whether its results so far never went back to an older snapshot
    sobs,       \* history variable, per observed channel: the cycle of the snapshot
                \* its owner received last, and the number of snapshots published
                \* when its Unsubscribe returned (-1 if its last call was not Unsubscribe)
    callers,    \* goroutines calling Start and Stop at once: where each stands in
                \* its call, and the context its Start derived
    life,       \* the fields Start and Stop share: running, cancel, the wait group
                \* counter, the loop goroutines alive, the cancelled contexts
    app,        \* Application.shutdown: shutdownOnce, the goroutine that stops the
                \* components, and what has been done so far
    req,        \* the goroutines that request a shutdown: where each stands
    al,         \* the Alerter: running, config, activeAlerts, history, and the
                \* alerts handed to the handlers
    aobs,       \* history variable: the metrics of the last Check that went
                \* through, per key what the Check before it saw, the calls so far
    hk,         \* the hotkeys.Manager: running, the context of its loop, the
                \* messageLoop goroutine, registerCh, handlers
    regs        \* the goroutines that call Register: where each stands, and
                \* what its resultCh holds

heapVars == <<objs, arrs>>
clientVars == <<held, muts, added, lastOp, before, agg>>
concVars == <<mu, pc, reg, adds, reads>>
collVars == <<cfg, gpuCollector, running, ctl, loop, ctx, col, late, latestPtr,
              subscribers, chans, now, cycles, used, pub, finalized, robs, sobs>>
vars == <<objs, arrs, rb, panicked, held, muts, added, lastOp, before, agg,
          mu, pc, reg, adds, reads,
          cfg, gpuCollector, running, ctl, loop, ctx, col, late, latestPtr,
          subscribers, chans, now, cycles, used, pub, finalized, robs, sobs,
          callers, life, app, req, al, aobs, hk, regs>>
lifeVars == <<callers, life>>
shutVars == <<app, req>>
alertVars == <<al, aobs>>
keyVars == <<hk, regs>>
appVars == <<lifeVars, shutVars, alertVars, keyVars>>

\* ------------------------------------------------------------------ heap
Min(a, b) == IF a < b THEN a ELSE b

Range(f) == {f[x] : x \in DOMAIN f}

MinFree(S) == CHOOSE i \in 1..(Cardinality(S) + 1) :
                  i \notin S /\ \A j \in 1..(i - 1) : j \in S

Heap == [objs |-> objs, arrs |-> arrs]

\* the one element of a singleton set.  Only({F(v) : v \in {e}}) is F(e)
\* with e evaluated once.
Only(S) == CHOOSE x \in S : TRUE

\* make([]T, len(src)); copy(dst, src)
AllocArr(h, elems) ==
    Only({[h |-> [hv EXCEPT !.arrs = (MinFree(DOMAIN hv.arrs) :> elems) @@ hv.arrs],
           ref |-> MinFree(DOMAIN hv.arrs)] : hv \in {h}})

\* &Metrics{...}
AllocObj(h, m) ==
    Only({[h |-> [hv EXCEPT !.objs = (MinFree(DOMAIN hv.objs) :> m) @@ hv.objs],
           ref |-> MinFree(DOMAIN hv.objs)] : hv \in {h}})

\* the distinct non-nil addresses of seq, in order of first occurrence, after
\* those of acc
RECURSIVE Distinct(_, _)
Distinct(seq, acc) ==
    IF seq = <<>> THEN acc
    ELSE Only({Distinct(t, a) :
                  t \in {Tail(seq)},
                  a \in {IF Head(seq) = NIL \/ Head(seq) \in Range(acc)
                         THEN acc ELSE Append(acc, Head(seq))}})

IndexIn(seq, x) == CHOOSE i \in 1..Len(seq) : seq[i] = x

RECURSIVE Flatten(_)
Flatten(ss) == IF ss = <<>> THEN <<>> ELSE Head(ss) \o Flatten(Tail(ss))

SliceRefSeq(m) == <<m.CPU.PerCorePercent, m.Disk.Disks,
                    m.Network.Interfaces, m.TopProcesses>>

\* Garbage collection and address canonicalisation.  Addresses are opaque in
\* Go, so the heap is kept up to renaming: the structs reachable from the
\* pointers in roots are kept and numbered in order of first occurrence, the
\* backing arrays they reference likewise.  ren maps old addresses to new ones.
\* po and ao are the structs and the backing arrays that are kept, in their
\* new order
SweepTo(h, roots, po, ao) ==
    LET ra(a) == IF a = NIL THEN NIL ELSE IndexIn(ao, a)
        rs(m) == [m EXCEPT !.CPU.PerCorePercent = ra(@),
                           !.Disk.Disks = ra(@),
                           !.Network.Interfaces = ra(@),
                           !.TopProcesses = ra(@)]
    IN  [objs |-> [i \in 1..Len(po) |-> rs(h.objs[po[i]])],
         arrs |-> [i \in 1..Len(ao) |-> h.arrs[ao[i]]],
         ren  |-> [p \in Range(roots) \cup {NIL} |->
                      IF p = NIL THEN NIL ELSE IndexIn(po, p)]]

SweepObjs(h, roots, po) ==
    Only({SweepTo(h, roots, po, ao) :
             ao \in {Distinct(Flatten([i \in 1..Len(po) |->
                                          SliceRefSeq(h.objs[po[i]])]), <<>>)}})

Sweep(h, roots) ==
    Only({Only({SweepObjs(hv, rv, po) :
                   po \in {Distinct(SelectSeq(rv, LAMBDA x : x # NIL), <<>>)}}) :
             hv \in {h}, rv \in {roots}})

\* ------------------------------------------------------- models.Metrics
\* the zero value of models.Metrics.  Cycle is a history field that is not in
\* the Go struct: the number of the collect() call that built the snapshot
\* (0 for a snapshot built by a client of the store); copies carry it along.
ZeroMetrics ==
    [Cycle        |-> 0,
     Timestamp    |-> 0,
     CPU          |-> [UsagePercent |-> 0, PerCorePercent |-> NIL],
     Memory       |-> [UsedPercent |-> 0],
     GPU          |-> [Available |-> FALSE, UsagePercent |-> 0, TemperatureC |-> 0],
     Disk         |-> [ReadMBps |-> 0, Disks |-> NIL],
     Network      |-> [DownloadKBps |-> 0, Interfaces |-> NIL],
     TopProcesses |-> NIL]

\* mutant: the clone keeps the slice header, sharing the backing array
CloneSliceShared(h, ref) == [h |-> h, ref |-> ref]

\* the "if m.X != nil { make; copy }" blocks of Clone
CloneSlice(h, ref) ==
    IF ref = NIL THEN [h |-> h, ref |-> NIL] ELSE AllocArr(h, h.arrs[ref])

\* mutant: the copy takes the process list away from the original
CloneMoveSlices(h, p) ==
    Only({[h |-> [r.h EXCEPT !.objs[p].TopProcesses = NIL], ref |-> r.ref] :
             r \in {AllocObj(h, h.objs[p])}})

\* func (m *Metrics) Clone() *Metrics
Clone(h, p) ==
    LET m  == h.objs[p]
        r1 == CloneSlice(h, m.CPU.PerCorePercent)
        r2 == CloneSlice(r1.h, m.Disk.Disks)
        r3 == CloneSlice(r2.h, m.Network.Interfaces)
        r4 == CloneSlice(r3.h, m.TopProcesses)
        c  == [Cycle        |-> m.Cycle,
               Timestamp    |-> m.Timestamp,
               CPU          |-> [m.CPU EXCEPT !.PerCorePercent = r1.ref],
               Memory       |-> m.Memory,
               GPU          |-> m.GPU,
               Disk         |-> [m.Disk EXCEPT !.Disks = r2.ref],
               Network      |-> [m.Network EXCEPT !.Interfaces = r3.ref],
               TopProcesses |-> r4.ref]
    IN  AllocObj(r4.h, c)

\* the value a caller sees through a slice: nil-ness and elements
DeepSlice(h, ref) ==
    IF ref = NIL THEN [isNil |-> TRUE, elems |-> <<>>]
                 ELSE [isNil |-> FALSE, elems |-> h.arrs[ref]]

\* the deep value of the snapshot at address p (what reflect.DeepEqual compares)
Deep(h, p) ==
    LET m == h.objs[p]
    IN  [Cycle        |-> m.Cycle,
         Timestamp    |-> m.Timestamp,
         CPU          |-> [m.CPU EXCEPT !.PerCorePercent = DeepSlice(h, @)],
         Memory       |-> m.Memory,
         GPU          |-> m.GPU,
         Disk         |-> [m.Disk EXCEPT !.Disks = DeepSlice(h, @)],
         Network      |-> [m.Network EXCEPT !.Interfaces = DeepSlice(h, @)],
         TopProcesses |-> DeepSlice(h, m.TopProcesses)]

DeepSeq(h, refs) == [i \in 1..Len(refs) |-> Deep(h, refs[i])]

\* --------------------------------------------------- storage.RingBuffer
\* Go's % truncates towards zero
GoMod(a, b) == IF a >= 0 THEN a % b ELSE 0 - ((0 - a) % b)

\* mutant: the capacity is taken as given
NewRingBufferAsGiven(capacity) ==
    [data |-> [i \in 0..(capacity - 1) |-> NIL],
     size |-> 0, head |-> 0, count |-> 0, capacity |-> capacity]

\* func NewRingBuffer(capacity int) *RingBuffer
NewRingBuffer(capacity) ==
    LET c == IF capacity <= 0 THEN 60 ELSE capacity
    IN  [data |-> [i \in 0..(c - 1) |-> NIL],
         size |-> 0, head |-> 0, count |-> 0, capacity |-> c]

\* mutant: the head moves on without wrapping around
AddStoreNoWrap(h, b, p) ==
    Only({[h |-> c.h,
           b |-> [b EXCEPT !.data[b.head] = c.ref, !.head = b.head + 1],
           panic |-> b.head \notin DOMAIN b.data] : c \in {Clone(h, p)}})

\* Add, first half: rb.data[rb.head] = metrics.Clone(); rb.head = (rb.head + 1) % rb.capacity
AddStore(h, b, p) ==
    Only({[h |-> c.h,
           b |-> [b EXCEPT !.data[b.head] = c.ref,
                           !.head = GoMod(b.head + 1, b.capacity)],
           panic |-> b.head \notin DOMAIN b.data] : c \in {Clone(h, p)}})

\* mutant: the count grows without the capacity test
AddCountUnbounded(b, cnt) == [b EXCEPT !.count = cnt + 1, !.size = cnt + 1]

\* Add, second half: if rb.count < rb.capacity { rb.count++ }; rb.size = rb.count
\* (cnt is the value the rb.count read yielded)
AddCount(b, cnt) ==
    LET n == IF cnt < b.capacity THEN cnt + 1 ELSE cnt
    IN  [b EXCEPT !.count = n, !.size = n]

\* func (rb *RingBuffer) Add(metrics *models.Metrics), under rb.mu.Lock()
Add(h, b, p) ==
    Only({[h |-> s.h, b |-> AddCount(s.b, s.b.count), panic |-> s.panic] :
             s \in {AddStore(h, b, p)}})

\* the loop of GetLast: result[i] = rb.data[(start + i) % rb.capacity].Clone()
RECURSIVE GetLastLoop(_, _, _, _, _, _)
GetLastLoop(h, b, start, i, n, acc) ==
    IF i >= n THEN [h |-> h, isNil |-> FALSE, refs |-> acc, panic |-> FALSE]
    ELSE LET idx == GoMod(start + i, b.capacity)
         IN  IF idx \notin DOMAIN b.data \/ b.data[idx] = NIL
             THEN [h |-> h, isNil |-> TRUE, refs |-> <<>>, panic |-> TRUE]
             ELSE LET c == Clone(h, b.data[idx])
                  IN  GetLastLoop(c.h, b, start, i + 1, n, Append(acc, c.ref))

\* mutant: the window starts at the oldest slot instead of n before head
GetLastStartOldest(b, n) == GoMod(b.head - b.count + b.capacity, b.capacity)

\* start := (rb.head - n + rb.capacity) % rb.capacity
GetLastStart(b, n) == GoMod(b.head - n + b.capacity, b.capacity)

\* func (rb *RingBuffer) GetLast(n int) []*models.Metrics, under rb.mu.RLock()
GetLast(h, b, n) ==
    IF n <= 0 \/ b.count = 0
    THEN [h |-> h, isNil |-> TRUE, refs |-> <<>>, panic |-> FALSE]
    ELSE LET m == IF n > b.count THEN b.count ELSE n
         IN  GetLastLoop(h, b, GetLastStart(b, m), 0, m, <<>>)

\* func (rb *RingBuffer) GetAll() []*models.Metrics: rb.GetLast(rb.count), where
\* cnt is the value the read of rb.count yielded before GetLast took the lock
GetAll(h, b, cnt) == GetLast(h, b, cnt)

\* mutant: reads the slot at head, the next one to be overwritten
GetLatestIdxHead(b) == GoMod(b.head, b.capacity)

\* idx := (rb.head - 1 + rb.capacity) % rb.capacity
GetLatestIdx(b) == GoMod(b.head - 1 + b.capacity, b.capacity)

\* func (rb *RingBuffer) GetLatest() *models.Metrics, under rb.mu.RLock()
GetLatest(h, b) ==
    IF b.count = 0
    THEN [h |-> h, ref |-> NIL, panic |-> FALSE]
    ELSE LET idx == GetLatestIdx(b)
         IN  IF idx \notin DOMAIN b.data \/ b.data[idx] = NIL
             THEN [h |-> h, ref |-> NIL, panic |-> TRUE]
             ELSE LET c == Clone(h, b.data[idx])
                  IN  [h |-> c.h, ref |-> c.ref, panic |-> FALSE]

\* mutant: the slots are emptied and the counters are left as they were
ClearSlotsOnly(b) == [b EXCEPT !.data = [i \in DOMAIN b.data |-> NIL], !.head = 0]

\* func (rb *RingBuffer) Clear()
Clear(b) ==
    [b EXCEPT !.data = [i \in DOMAIN b.data |-> NIL],
              !.head = 0, !.count = 0, !.size = 0]

\* func (rb *RingBuffer) Size() int
Size(b) == b.count

\* func (rb *RingBuffer) Capacity() int
CapacityOf(b) == b.capacity

\* func (rb *RingBuffer) IsFull() bool
IsFull(b) == b.count = b.capacity

\* func (rb *RingBuffer) IsEmpty() bool
IsEmpty(b) == b.count = 0

\* ------------------------------------------- sequential client of the store
\* the last n elements of seq
LastN(seq, n) == SubSeq(seq, Len(seq) - n + 1, Len(seq))

\* what last(n) returns, as deep values, and whether it panics
LastView(n) ==
    LET r == GetLast(Heap, rb, n)
    IN  [vals |-> DeepSeq(r.h, r.refs), panic |-> r.panic]

\* what latest() returns: empty, or a deep value
LatestView ==
    LET r == GetLatest(Heap, rb)
    IN  [empty |-> r.ref = NIL,
         vals  |-> IF r.ref = NIL THEN <<>> ELSE <<Deep(r.h, r.ref)>>,
         panic |-> r.panic]

\* everything the read operations of the store return in the current state
StoreView == [latest |-> LatestView,
              last   |-> [n \in 1..CapacityOf(rb) |-> LastView(n)]]

\* a slice literal []T{...} as a deep value
SliceLit(elems) == [isNil |-> FALSE, elems |-> elems]

\* createTestMetrics: a fully populated snapshot built by the caller
NewTestMetrics(v) ==
    [Cycle        |-> 0,
     Timestamp    |-> v,
     CPU          |-> [UsagePercent |-> 10 * v, PerCorePercent |-> SliceLit(<<10 * v, 10 * v>>)],
     Memory       |-> [UsedPercent |-> 50],
     GPU          |-> [Available |-> TRUE, UsagePercent |-> 50, TemperatureC |-> 65],
     Disk         |-> [ReadMBps |-> 100, Disks |-> SliceLit(<<v>>)],
     Network      |-> [DownloadKBps |-> 1000, Interfaces |-> SliceLit(<<v>>)],
     TopProcesses |-> SliceLit(<<1234>>)]

\* allocate a struct with the deep value m
AllocMetrics(h, m) ==
    LET sl(hh, e) == IF e.isNil THEN [h |-> hh, ref |-> NIL] ELSE AllocArr(hh, e.elems)
        r1 == sl(h, m.CPU.PerCorePercent)
        r2 == sl(r1.h, m.Disk.Disks)
        r3 == sl(r2.h, m.Network.Interfaces)
        r4 == sl(r3.h, m.TopProcesses)
    IN  AllocObj(r4.h, [m EXCEPT !.CPU.PerCorePercent = r1.ref,
                                 !.Disk.Disks = r2.ref,
                                 !.Network.Interfaces = r3.ref,
                                 !.TopProcesses = r4.ref])

\* the pointers a state of the store and its sequential client holds
RECURSIVE DataSeq(_, _)
DataSeq(b, i) == IF i >= b.capacity THEN <<>> ELSE <<b.data[i]>> \o DataSeq(b, i + 1)

StoreRoots(b, hl) == DataSeq(b, 0) \o hl

\* the next state of heap, store and client pointers, after garbage collection
SetStore(h, b, hl) ==
    \E g \in {Sweep(h, StoreRoots(b, hl))} :
        /\ objs' = g.objs
        /\ arrs' = g.arrs
        /\ rb' = [b EXCEPT !.data = [i \in DOMAIN b.data |-> g.ren[b.data[i]]]]
        /\ held' = [i \in 1..Len(hl) |-> g.ren[hl[i]]]

\* ------------------------------------------------- aggregates of the store
\* CPU, Memory and GPU UsagePercent of min before the loop of GetMinMax
MinInitPercent == 100

\* GPU.TemperatureC of min before the loop of GetMinMax
MinInitTemp == 200

RECURSIVE GCD(_, _)
GCD(a, b) == IF b = 0 THEN a ELSE GCD(b, a % b)

\* the float64 quotient a / b of two whole numbers, b > 0, as a reduced
\* fraction (the rounding of float64 is left out)
Quot(a, b) == [num |-> a \div GCD(a, b), den |-> b \div GCD(a, b)]

RECURSIVE SumSeq(_)
SumSeq(s) == IF s = <<>> THEN 0 ELSE Head(s) + SumSeq(Tail(s))

\* the body of GetAverage after the length check: the sums over snaps, the
\* float64 divisions by n and the integer division of the uint32 temperature
\* sum by uint32(len(snapshots)), which panics when the length is zero
AverageOf(snaps) ==
    LET len == Len(snaps)
        cpuSum == SumSeq([i \in 1..len |-> snaps[i].CPU.UsagePercent])
        memPercentSum == SumSeq([i \in 1..len |-> snaps[i].Memory.UsedPercent])
        gpuSum == SumSeq([i \in 1..len |-> snaps[i].GPU.UsagePercent])
        gpuTempSum == SumSeq([i \in 1..len |-> snaps[i].GPU.TemperatureC])
        diskReadSum == SumSeq([i \in 1..len |-> snaps[i].Disk.ReadMBps])
        netDownloadSum == SumSeq([i \in 1..len |-> snaps[i].Network.DownloadKBps])
    IN  IF len = 0 THEN [isNil |-> FALSE, panic |-> TRUE]
        ELSE [isNil |-> FALSE, panic |-> FALSE,
              val |-> [CPU     |-> [UsagePercent |-> Quot(cpuSum, len)],
                       Memory  |-> [UsedPercent |-> Quot(memPercentSum, len)],
                       GPU     |-> [Available |-> snaps[len].GPU.Available,
                                    UsagePercent |-> Quot(gpuSum, len),
                                    TemperatureC |-> gpuTempSum \div len],
                       Disk    |-> [ReadMBps |-> Quot(diskReadSum, len)],
                       Network |-> [DownloadKBps |-> Quot(netDownloadSum, len)]]]

\* the structs behind the pointers GetLast returned
Snapshots(r) == [i \in 1..Len(r.refs) |-> r.h.objs[r.refs[i]]]

\* mutant: no check of len(snapshots) before the divisions
GetAverageNoCheck(h, b, seconds) ==
    LET r == GetLast(h, b, seconds)
    IN  IF r.panic THEN [isNil |-> TRUE, panic |-> TRUE]
        ELSE AverageOf(Snapshots(r))

\* func (rb *RingBuffer) GetAverage(seconds int) *models.Metrics
GetAverage(h, b, seconds) ==
    LET r == GetLast(h, b, seconds)
    IN  IF r.panic THEN [isNil |-> TRUE, panic |-> TRUE]
        ELSE IF Len(r.refs) = 0 THEN [isNil |-> TRUE, panic |-> FALSE]
        ELSE AverageOf(Snapshots(r))

\* the loop of GetMinMax over snaps[i..]: strict comparisons, field by field
RECURSIVE MinMaxLoop(_, _, _, _)
MinMaxLoop(snaps, i, min, max) ==
    IF i > Len(snaps) THEN [min |-> min, max |-> max, panic |-> FALSE]
    ELSE LET m == snaps[i]
             lo(x, y) == IF x < y THEN x ELSE y
             hi(x, y) == IF x > y THEN x ELSE y
         IN  MinMaxLoop(snaps, i + 1,
                 [min EXCEPT !.CPU.UsagePercent = lo(m.CPU.UsagePercent, @),
                             !.Memory.UsedPercent = lo(m.Memory.UsedPercent, @),
                             !.GPU.UsagePercent = lo(m.GPU.UsagePercent, @),
                             !.GPU.TemperatureC = lo(m.GPU.TemperatureC, @)],
                 [max EXCEPT !.CPU.UsagePercent = hi(m.CPU.UsagePercent, @),
                             !.Memory.UsedPercent = hi(m.Memory.UsedPercent, @),
                             !.GPU.UsagePercent = hi(m.GPU.UsagePercent, @),
                             !.GPU.TemperatureC = hi(m.GPU.TemperatureC, @)])

\* func (rb *RingBuffer) GetMinMax(seconds int) (min, max *models.Metrics)
GetMinMax(h, b, seconds) ==
    LET r == GetLast(h, b, seconds)
        snaps == Snapshots(r)
        nil == [isNil |-> TRUE]
    IN  IF r.panic THEN [min |-> nil, max |-> nil, panic |-> TRUE]
        ELSE IF Len(snaps) = 0 THEN [min |-> nil, max |-> nil, panic |-> FALSE]
        ELSE MinMaxLoop(snaps, 1,
                 [isNil |-> FALSE, Timestamp |-> snaps[1].Timestamp,
                  CPU |-> [UsagePercent |-> MinInitPercent],
                  Memory |-> [UsedPercent |-> MinInitPercent],
                  GPU |-> [UsagePercent |-> MinInitPercent, TemperatureC |-> MinInitTemp]],
                 [isNil |-> FALSE, Timestamp |-> snaps[Len(snaps)].Timestamp,
                  CPU |-> [UsagePercent |-> 0],
                  Memory |-> [UsedPercent |-> 0],
                  GPU |-> [UsagePercent |-> 0, TemperatureC |-> 0]])

\* the client's last call was neither GetAverage nor GetMinMax
AggNoCall == [op |-> "none", n |-> 0, res |-> <<>>]

\* GPU temperatures of the snapshots the aggregate client adds
SampleTemps == <<65, 66, MinInitTemp + 1>>

\* createTestMetrics(10 * v, 50) with the v-th temperature
AggSample(v) == [NewTestMetrics(v) EXCEPT !.GPU.TemperatureC = SampleTemps[v]]

\* rb.Add(createTestMetrics(...)), the loop of TestGetAverage and TestGetMinMax
AggAdd(v) ==
    /\ Len(added) < MaxAdds
    /\ LET m == AllocMetrics(Heap, AggSample(v))
           r == Add(m.h, rb, m.ref)
       IN  /\ added' = Append(added, Deep(m.h, m.ref))
           /\ SetStore(r.h, r.b, held)
           /\ panicked' = (panicked \/ r.panic)
    /\ lastOp' = "add"
    /\ before' = <<>>
    /\ agg' = AggNoCall
    /\ UNCHANGED muts
    /\ UNCHANGED concVars
    /\ UNCHANGED collVars
    /\ UNCHANGED appVars

\* avg := rb.GetAverage(n); the clones GetLast made are garbage on return
StoreGetAverage(n) ==
    /\ \E a \in {GetAverage(Heap, rb, n)} :
          /\ agg' = [op |-> "average", n |-> n, res |-> a]
          /\ panicked' = (panicked \/ a.panic)
    /\ lastOp' = "average"
    /\ UNCHANGED <<heapVars, rb, held, muts, added, before>>
    /\ UNCHANGED concVars
    /\ UNCHANGED collVars
    /\ UNCHANGED appVars

\* min, max := rb.GetMinMax(n)
StoreGetMinMax(n) ==
    /\ \E a \in {GetMinMax(Heap, rb, n)} :
          /\ agg' = [op |-> "minmax", n |-> n, res |-> a]
          /\ panicked' = (panicked \/ a.panic)
    /\ lastOp' = "minmax"
    /\ UNCHANGED <<heapVars, rb, held, muts, added, before>>
    /\ UNCHANGED concVars
    /\ UNCHANGED collVars
    /\ UNCHANGED appVars

\* the caller builds a snapshot of its own
ClientNew(v) ==
    LET r == AllocMetrics(Heap, NewTestMetrics(v))
    IN  /\ SetStore(r.h, rb, <<r.ref>>)
        /\ muts' = 0
        /\ lastOp' = "new"
        /\ before' = <<>>
        /\ agg' = AggNoCall
        /\ UNCHANGED <<panicked, added>>
        /\ UNCHANGED concVars
        /\ UNCHANGED collVars
        /\ UNCHANGED appVars
    /\ UNCHANGED appVars

\* rb.Add(held[i]); the client adds snapshots it has not written to since it
\* built or received them (a modified snapshot is just another input value)
StoreAdd(i) ==
    /\ i \in 1..Len(held)
    /\ muts = 0
    /\ Len(added) < MaxAdds
    /\ LET r == Add(Heap, rb, held[i])
       IN  /\ added' = Append(added, Deep(Heap, held[i]))
           /\ SetStore(r.h, r.b, held)
           /\ panicked' = (panicked \/ r.panic)
    /\ lastOp' = "add"
    /\ before' = <<>>
    /\ agg' = AggNoCall
    /\ UNCHANGED muts
    /\ UNCHANGED concVars
    /\ UNCHANGED collVars
    /\ UNCHANGED appVars

\* held = rb.GetLatest()
StoreGetLatest ==
    LET r == GetLatest(Heap, rb)
    IN  /\ panicked' = (panicked \/ r.panic)
        /\ SetStore(r.h, rb, IF r.ref = NIL THEN <<>> ELSE <<r.ref>>)
        /\ muts' = 0
        /\ lastOp' = "latest"
        /\ before' = <<>>
        /\ agg' = AggNoCall
        /\ UNCHANGED added
        /\ UNCHANGED concVars
        /\ UNCHANGED collVars
        /\ UNCHANGED appVars
    /\ UNCHANGED appVars

\* held = rb.GetLast(n)
StoreGetLast(n) ==
    LET r == GetLast(Heap, rb, n)
    IN  /\ panicked' = (panicked \/ r.panic)
        /\ SetStore(r.h, rb, r.refs)
        /\ muts' = 0
        /\ lastOp' = "last"
        /\ before' = <<>>
        /\ agg' = AggNoCall
        /\ UNCHANGED added
        /\ UNCHANGED concVars
        /\ UNCHANGED collVars
        /\ UNCHANGED appVars
    /\ UNCHANGED appVars

\* held = rb.GetAll(), with no other goroutine at work
StoreGetAll ==
    LET r == GetAll(Heap, rb, rb.count)
    IN  /\ panicked' = (panicked \/ r.panic)
        /\ SetStore(r.h, rb, r.refs)
        /\ muts' = 0
        /\ lastOp' = "all"
        /\ before' = <<>>
        /\ agg' = AggNoCall
        /\ UNCHANGED added
        /\ UNCHANGED concVars
        /\ UNCHANGED collVars
        /\ UNCHANGED appVars
    /\ UNCHANGED appVars

\* rb.Size(), rb.Capacity(), rb.IsEmpty(), rb.IsFull(), results on record
StoreObserve ==
    /\ agg' = [op |-> "observe", n |-> 0,
               res |-> <<Size(rb), CapacityOf(rb), IsEmpty(rb), IsFull(rb)>>]
    /\ lastOp' = "observe"
    /\ UNCHANGED <<heapVars, rb, panicked, held, muts, added, before>>
    /\ UNCHANGED concVars
    /\ UNCHANGED collVars
    /\ UNCHANGED appVars

\* rb.Clear()
StoreClear ==
    /\ added' = <<>>
    /\ SetStore(Heap, Clear(rb), held)
    /\ lastOp' = "clear"
    /\ before' = <<>>
    /\ agg' = AggNoCall
    /\ UNCHANGED <<panicked, muts>>
    /\ UNCHANGED concVars
    /\ UNCHANGED collVars
    /\ UNCHANGED appVars

MutFields == {"CPU", "PerCorePercent", "Disks", "Interfaces", "TopProcesses"}

\* the slice header stored in field f of struct m
SliceOf(m, f) ==
    CASE f = "PerCorePercent" -> m.CPU.PerCorePercent
      [] f = "Disks"          -> m.Disk.Disks
      [] f = "Interfaces"     -> m.Network.Interfaces
      [] f = "TopProcesses"   -> m.TopProcesses

\* the caller writes through a pointer it holds: m.CPU.UsagePercent = 99, or m.<list>[0] = 99
ClientMutate(i, f) ==
    /\ i \in 1..Len(held)
    /\ muts < MaxMutations
    /\ muts' = muts + 1
    /\ lastOp' = "mutate"
    /\ before' = StoreView
    /\ agg' = AggNoCall
    /\ IF f = "CPU"
       THEN /\ objs[held[i]].CPU.UsagePercent # MutatedValue
            /\ objs' = [objs EXCEPT ![held[i]].CPU.UsagePercent = MutatedValue]
            /\ arrs' = arrs
       ELSE LET a == SliceOf(objs[held[i]], f)
            IN  /\ a # NIL
                /\ Len(arrs[a]) > 0
                /\ arrs[a][1] # MutatedValue
                /\ arrs' = [arrs EXCEPT ![a][1] = MutatedValue]
                /\ objs' = objs
    /\ UNCHANGED <<rb, panicked, held, added>>
    /\ UNCHANGED concVars
    /\ UNCHANGED collVars
    /\ UNCHANGED appVars

\* ------------------------------------------------- collector.Collector
Adapters == {"CPU", "Memory", "GPU", "Disk", "Network", "Processes"}
Chans == 1..NumChans
Readers == 1..NumReaders

\* no collect() call in progress
NoCollect == [pc |-> "none", by |-> "none", m |-> NIL, tasks |-> <<>>, idx |-> 0]

\* no result yet from GetLatest
NoObs == [cycle |-> 0 - 1, ts |-> 0 - 1]

\* time.Second, with durations counted in milliseconds
Second == 1000

\* int(d.Seconds()): the whole seconds of a duration, truncated towards zero
Seconds(d) == IF d >= 0 THEN d \div Second ELSE 0 - ((0 - d) \div Second)

\* a config.MonitoringConfig with the default update interval (1s) and top
\* process count (10), history duration d and the two enable flags
MonitoringConfig(g, e, d) ==
    [EnableGPU |-> g, EnableProcesses |-> e, HistoryDuration |-> d,
     UpdateInterval |-> Second, TopProcessCount |-> 10]

\* mutant: the history has one slot more than the configured seconds
HistoryOfLarger(c) == NewRingBuffer(Seconds(c.HistoryDuration) + 1)

\* collector.New(cfg): the size of the history it creates
\* historySeconds := int(cfg.HistoryDuration.Seconds()); if <= 0 then 60
HistoryOf(c) ==
    LET historySeconds == Seconds(c.HistoryDuration)
    IN  NewRingBuffer(IF historySeconds <= 0 THEN 60 ELSE historySeconds)

\* config.AlertsConfig with the defaults of the configuration manager
AlertsConfig ==
    [Enabled |-> TRUE, CPUThreshold |-> 80, RAMThreshold |-> 85,
     GPUThreshold |-> 85, GPUTempThreshold |-> 85, DiskThreshold |-> 90]

\* the keys Check can raise an alert for, with one disk
AlertKeys == {"cpu", "ram", "gpu", "gpu_temp", "disk_C:"}

\* the goroutines that may call Register, and the hotkey identifiers
Registrants == 1..NumRegistrants
HotkeyIDs == {"ShowWindow", "ToggleOverlay", "MoveOverlay"}

\* the components main() stops at shutdown, in the order of shutdown()
Components == <<"overlay", "hotkeys", "alerter", "collector">>

\* the goroutines that may request a shutdown: the signal handler, the tray
Requesters == 1..NumRequesters

\* the goroutines that may call Start and Stop at the same time
Callers == 1..NumCallers

\* what collector.New leaves in the fields Start and Stop share, with no call
\* in progress
InitRest ==
    /\ callers = [t \in Callers |-> [pc |-> "idle", ctx |-> 0]]
    /\ life = [running |-> FALSE, cancel |-> 0, wg |-> 0, loops |-> {},
               cancelled |-> {}, ctxs |-> 0, calls |-> 0]
    /\ app = [once |-> "new", cancelled |-> FALSE, stopper |-> 0,
              stopped |-> [i \in DOMAIN Components |-> 0],
              timedOut |-> FALSE, saved |-> 0, logClosed |-> 0, trayQuit |-> 0,
              calls |-> 0]
    /\ req = [t \in Requesters |-> "idle"]
    /\ al = [running |-> FALSE, config |-> AlertsConfig, active |-> {},
             history |-> <<>>, sent |-> <<>>]
    /\ hk = [running |-> FALSE, cancelled |-> FALSE, loop |-> "none",
             registerCh |-> <<>>, handlers |-> {}, calls |-> 0]
    /\ regs = [t \in Registrants |-> [pc |-> "idle", resultCh |-> <<>>, got |-> <<>>]]
    /\ aobs = [m |-> <<>>, prev |-> [k \in AlertKeys |-> "new"],
               seen |-> [k \in AlertKeys |-> "new"], raised |-> <<>>, calls |-> 0]

\* collector.New(cfg): the fields of the Collector
InitCollector(c) ==
    /\ cfg = c
    /\ gpuCollector = c.EnableGPU
    /\ running = FALSE
    /\ ctl = "idle"
    /\ loop = "none"
    /\ ctx = [parentDone |-> FALSE, done |-> FALSE]
    /\ col = NoCollect
    /\ late = {}
    /\ latestPtr = NIL
    /\ subscribers = <<>>
    /\ chans = [ch \in Chans |-> <<>>]
    /\ now = 1
    /\ cycles = 0
    /\ used = [slow |-> 0, panics |-> 0]
    /\ pub = <<>>
    /\ finalized = 0
    /\ robs = [r \in Readers |-> [last |-> NoObs, ordered |-> TRUE]]
    /\ InitRest

\* a sync.RWMutex nobody holds
NoProc == 0
NewRWMutex == [writer |-> NoProc, readers |-> {}]

Producers == 1..NumProducers
Consumers == (NumProducers + 1)..(NumProducers + NumConsumers)

\* the state after rb := NewRingBuffer(Capacity), before any call
InitStore ==
    /\ InitCollector(MonitoringConfig(TRUE, TRUE, Capacity * Second))
    /\ objs = <<>>
    /\ arrs = <<>>
    /\ rb = HistoryOf(cfg)
    /\ panicked = FALSE
    /\ held = <<>>
    /\ muts = 0
    /\ added = <<>>
    /\ lastOp = "init"
    /\ before = <<>>
    /\ agg = AggNoCall
    /\ mu = NewRWMutex
    /\ pc = [p \in Producers \cup Consumers |-> "idle"]
    /\ reg = [p \in Producers \cup Consumers |-> 0]
    /\ adds = [p \in Producers |-> 0]
    /\ reads = [c \in Consumers |-> 0]
    /\ sobs = <<>>

NextStore ==
    \/ \E v \in 1..MaxVal : ClientNew(v)
    \/ \E i \in 1..Capacity : StoreAdd(i)
    \/ StoreGetLatest
    \/ \E n \in (0 - 1)..(Capacity + 1) : StoreGetLast(n)
    \/ StoreClear
    \/ \E i \in 1..Capacity, f \in MutFields : ClientMutate(i, f)

SpecStore == InitStore /\ [][NextStore]_vars

\* the client of the aggregates: adds, clears and asks for averages and extremes
NextAgg ==
    \/ \E v \in 1..Len(SampleTemps) : AggAdd(v)
    \/ StoreClear
    \/ \E n \in (0 - 1)..(Capacity + 1) : StoreGetAverage(n)
    \/ \E n \in (0 - 1)..(Capacity + 1) : StoreGetMinMax(n)

SpecAgg == InitStore /\ [][NextAgg]_vars

\* a client that adds, clears and calls every read operation of the store
NextRead ==
    \/ \E v \in 1..MaxVal : AggAdd(v)
    \/ StoreClear
    \/ StoreGetLatest
    \/ \E n \in (0 - 1)..(Capacity + 1) : StoreGetLast(n)
    \/ StoreGetAll
    \/ \E n \in (0 - 1)..(Capacity + 1) : StoreGetAverage(n)
    \/ \E n \in (0 - 1)..(Capacity + 1) : StoreGetMinMax(n)
    \/ StoreObserve

SpecRead == InitStore /\ [][NextRead]_vars

\* the state after rb := NewRingBuffer(n), or after New(cfg) with the store
\* it created, for some capacities n and some history durations d (in
\* milliseconds); the constructor call and its argument are on record in agg
InitNew ==
    /\ \/ \E n \in {0 - 1, 0, 1, Capacity} :
             /\ InitCollector(MonitoringConfig(TRUE, TRUE, Capacity * Second))
             /\ rb = NewRingBuffer(n)
             /\ agg = [op |-> "NewRingBuffer", n |-> n, res |-> <<>>]
       \/ \E d \in {0 - 1500, 0, 999, Second, 2 * Second + 999} :
             /\ InitCollector(MonitoringConfig(TRUE, TRUE, d))
             /\ rb = HistoryOf(cfg)
             /\ agg = [op |-> "New", n |-> d, res |-> <<>>]
    /\ objs = <<>>
    /\ arrs = <<>>
    /\ panicked = FALSE
    /\ held = <<>>
    /\ muts = 0
    /\ added = <<>>
    /\ lastOp = "init"
    /\ before = <<>>
    /\ mu = NewRWMutex
    /\ pc = [p \in Producers \cup Consumers |-> "idle"]
    /\ reg = [p \in Producers \cup Consumers |-> 0]
    /\ adds = [p \in Producers |-> 0]
    /\ reads = [c \in Consumers |-> 0]
    /\ sobs = <<>>

\* the client of the constructors goes on to add, read and clear
NextNew ==
    \/ \E v \in 1..MaxVal : AggAdd(v)
    \/ StoreGetLatest
    \/ \E n \in 1..(Capacity + 1) : StoreGetLast(n)
    \/ StoreClear

SpecNew == InitNew /\ [][NextNew]_vars

\* ------------------------------------------ concurrent clients of the store
\* mutant: Lock() succeeds whoever holds the mutex
CanLockAlways(m) == TRUE

\* rb.mu.Lock() can return: no writer and no reader holds the mutex
CanLock(m) == m.writer = NoProc /\ m.readers = {}

\* rb.mu.RLock() can return: no writer holds the mutex
CanRLock(m) == m.writer = NoProc

DataRoots(b) == DataSeq(b, 0)

\* heap and store after a step of a concurrent client, which keeps no pointer
SetShared(h, b) ==
    \E g \in {Sweep(h, DataRoots(b))} :
        /\ objs' = g.objs
        /\ arrs' = g.arrs
        /\ rb' = [b EXCEPT !.data = [i \in DOMAIN b.data |-> g.ren[b.data[i]]]]

\* producer p enters Add: rb.mu.Lock()
AddLock(p) ==
    /\ pc[p] = "idle"
    /\ adds[p] < AddsPerProducer
    /\ CanLock(mu)
    /\ mu' = [mu EXCEPT !.writer = p]
    /\ pc' = [pc EXCEPT ![p] = "store"]
    /\ UNCHANGED <<heapVars, rb, panicked, reg, adds, reads>>
    /\ UNCHANGED clientVars
    /\ UNCHANGED collVars
    /\ UNCHANGED appVars

\* rb.data[rb.head] = metrics.Clone(); rb.head = (rb.head + 1) % rb.capacity,
\* for the snapshot createTestMetrics(id*10 + j, 50) the producer just built
AddStoreStep(p) ==
    /\ pc[p] = "store"
    /\ LET m == AllocMetrics(Heap, NewTestMetrics(10 * p + adds[p]))
           r == AddStore(m.h, rb, m.ref)
       IN  /\ SetShared(r.h, r.b)
           /\ panicked' = (panicked \/ r.panic)
    /\ pc' = [pc EXCEPT ![p] = "load"]
    /\ UNCHANGED <<mu, reg, adds, reads>>
    /\ UNCHANGED clientVars
    /\ UNCHANGED collVars
    /\ UNCHANGED appVars

\* the read of rb.count in "if rb.count < rb.capacity"
AddLoadCount(p) ==
    /\ pc[p] = "load"
    /\ reg' = [reg EXCEPT ![p] = rb.count]
    /\ pc' = [pc EXCEPT ![p] = "count"]
    /\ UNCHANGED <<heapVars, rb, panicked, mu, adds, reads>>
    /\ UNCHANGED clientVars
    /\ UNCHANGED collVars
    /\ UNCHANGED appVars

\* rb.count++; rb.size = rb.count
AddCountStep(p) ==
    /\ pc[p] = "count"
    /\ rb' = AddCount(rb, reg[p])
    /\ pc' = [pc EXCEPT ![p] = "unlock"]
    /\ UNCHANGED <<heapVars, panicked, mu, reg, adds, reads>>
    /\ UNCHANGED clientVars
    /\ UNCHANGED collVars
    /\ UNCHANGED appVars

\* the deferred rb.mu.Unlock(); Add returns
AddUnlock(p) ==
    /\ pc[p] = "unlock"
    /\ mu' = [mu EXCEPT !.writer = IF @ = p THEN NoProc ELSE @]
    /\ adds' = [adds EXCEPT ![p] = @ + 1]
    /\ pc' = [pc EXCEPT ![p] = "idle"]
    /\ UNCHANGED <<heapVars, rb, panicked, reg, reads>>
    /\ UNCHANGED clientVars
    /\ UNCHANGED collVars
    /\ UNCHANGED appVars

ReadOps == {"latest", "last", "size"}

\* consumer c enters GetLatest, GetLast or Size: rb.mu.RLock()
ReadLock(c, op) ==
    /\ pc[c] = "idle"
    /\ reads[c] < ReadsPerConsumer
    /\ CanRLock(mu)
    /\ mu' = [mu EXCEPT !.readers = @ \cup {c}]
    /\ pc' = [pc EXCEPT ![c] = op]
    /\ UNCHANGED <<heapVars, rb, panicked, reg, adds, reads>>
    /\ UNCHANGED clientVars
    /\ UNCHANGED collVars
    /\ UNCHANGED appVars

\* the body of the read call; the result is dropped (_ = rb.GetLatest())
ReadBody(c, n) ==
    /\ pc[c] \in ReadOps
    /\ pc[c] # "last" => n = 1
    /\ panicked' = (panicked \/ CASE pc[c] = "latest" -> GetLatest(Heap, rb).panic
                                  [] pc[c] = "last"   -> GetLast(Heap, rb, n).panic
                                  [] pc[c] = "size"   -> Size(rb) \notin 0..CapacityOf(rb))
    /\ pc' = [pc EXCEPT ![c] = "runlock"]
    /\ UNCHANGED <<heapVars, rb, mu, reg, adds, reads>>
    /\ UNCHANGED clientVars
    /\ UNCHANGED collVars
    /\ UNCHANGED appVars

\* consumer c enters GetAll: the argument rb.count is read before GetLast is
\* called, without the mutex
GetAllLoadCount(c) ==
    /\ pc[c] = "idle"
    /\ reads[c] < ReadsPerConsumer
    /\ reg' = [reg EXCEPT ![c] = rb.count]
    /\ pc' = [pc EXCEPT ![c] = "all"]
    /\ UNCHANGED <<heapVars, rb, panicked, mu, adds, reads>>
    /\ UNCHANGED clientVars
    /\ UNCHANGED collVars
    /\ UNCHANGED appVars

\* GetAll calls GetLast with the value read: rb.mu.RLock()
GetAllLock(c) ==
    /\ pc[c] = "all"
    /\ CanRLock(mu)
    /\ mu' = [mu EXCEPT !.readers = @ \cup {c}]
    /\ pc' = [pc EXCEPT ![c] = "alllast"]
    /\ UNCHANGED <<heapVars, rb, panicked, reg, adds, reads>>
    /\ UNCHANGED clientVars
    /\ UNCHANGED collVars
    /\ UNCHANGED appVars

\* the body of GetLast inside GetAll; the result is dropped
GetAllBody(c) ==
    /\ pc[c] = "alllast"
    /\ panicked' = (panicked \/ GetAll(Heap, rb, reg[c]).panic)
    /\ pc' = [pc EXCEPT ![c] = "runlock"]
    /\ UNCHANGED <<heapVars, rb, mu, reg, adds, reads>>
    /\ UNCHANGED clientVars
    /\ UNCHANGED collVars
    /\ UNCHANGED appVars

\* the deferred rb.mu.RUnlock(); the read returns
ReadUnlock(c) ==
    /\ pc[c] = "runlock"
    /\ mu' = [mu EXCEPT !.readers = @ \ {c}]
    /\ reads' = [reads EXCEPT ![c] = @ + 1]
    /\ pc' = [pc EXCEPT ![c] = "idle"]
    /\ UNCHANGED <<heapVars, rb, panicked, reg, adds>>
    /\ UNCHANGED clientVars
    /\ UNCHANGED collVars
    /\ UNCHANGED appVars

NextConc ==
    \/ \E p \in Producers : AddLock(p)
    \/ \E p \in Producers : AddStoreStep(p)
    \/ \E p \in Producers : AddLoadCount(p)
    \/ \E p \in Producers : AddCountStep(p)
    \/ \E p \in Producers : AddUnlock(p)
    \/ \E c \in Consumers, op \in ReadOps : ReadLock(c, op)
    \/ \E c \in Consumers, n \in 1..(Capacity + 1) : ReadBody(c, n)
    \/ \E c \in Consumers : GetAllLoadCount(c)
    \/ \E c \in Consumers : GetAllLock(c)
    \/ \E c \in Consumers : GetAllBody(c)
    \/ \E c \in Consumers : ReadUnlock(c)

SpecConc == InitStore /\ [][NextConc]_vars

RECURSIVE SumOver(_, _)
SumOver(f, S) ==
    IF S = {} THEN 0
    ELSE LET x == CHOOSE y \in S : TRUE IN f[x] + SumOver(f, S \ {x})

\* the Add calls that have returned
TotalAdds == SumOver(adds, Producers)

\* no call is in progress
AllIdle == \A p \in Producers \cup Consumers : pc[p] = "idle"

\* ------------------------------------------- collector.Collector, operations
\* mutant: a task is launched for every sub-collector
LaunchedAll(gpu, c) == Adapters

\* the sub-collectors collect() launches a task for
Launched(gpu, c) ==
    {"CPU", "Memory", "Disk", "Network"}
        \cup (IF gpu THEN {"GPU"} ELSE {})
        \cup (IF c.EnableProcesses THEN {"Processes"} ELSE {})

\* mutant: the timestamp is taken with the wrong sign, so it runs backwards
NewMetricsBackwards(h, ts, k) ==
    LET r == AllocArr(h, <<>>)
    IN  AllocObj(r.h, [ZeroMetrics EXCEPT !.Cycle = k, !.Timestamp = 0 - ts,
                                          !.TopProcesses = r.ref])

\* models.NewMetrics(): Timestamp = time.Now(), TopProcesses = make([]ProcessInfo, 0, 10)
NewMetrics(h, ts, k) ==
    LET r == AllocArr(h, <<>>)
    IN  AllocObj(r.h, [ZeroMetrics EXCEPT !.Cycle = k, !.Timestamp = ts,
                                          !.TopProcesses = r.ref])

\* func NewProcessCollector(topCount int) *ProcessCollector
NewProcessCollector(topCount) ==
    [topCount |-> IF topCount <= 0 THEN 10 ELSE topCount]

\* func (c *ProcessCollector) Collect() []models.ProcessInfo, from the sort
\* on: infos are the processes found, by CPU usage, the first topCount stay
ProcessCollect(c, infos) ==
    IF Len(infos) > c.topCount THEN SubSeq(infos, 1, c.topCount) ELSE infos

\* the k-th sample of a slice-valued adapter: one disk, one interface, one
\* core; for the process adapter what Collect() keeps of one process
SampleOf(a, k) ==
    IF a = "Processes"
    THEN ProcessCollect(NewProcessCollector(cfg.TopProcessCount), <<k>>)
    ELSE <<k>>

\* metrics.<field> = c.<adapter>Collector.Collect(), the k-th sample of adapter a
WriteResult(h, p, a, k) ==
    LET r == AllocArr(h, SampleOf(a, k))
    IN  CASE a = "CPU" ->
               [r.h EXCEPT !.objs[p].CPU = [UsagePercent |-> k, PerCorePercent |-> r.ref]]
          [] a = "Memory" ->
               [h EXCEPT !.objs[p].Memory = [UsedPercent |-> k]]
          [] a = "GPU" ->
               [h EXCEPT !.objs[p].GPU =
                   [Available |-> TRUE, UsagePercent |-> k, TemperatureC |-> k]]
          [] a = "Disk" ->
               [r.h EXCEPT !.objs[p].Disk = [ReadMBps |-> k, Disks |-> r.ref]]
          [] a = "Network" ->
               [r.h EXCEPT !.objs[p].Network = [DownloadKBps |-> k, Interfaces |-> r.ref]]
          [] a = "Processes" ->
               [r.h EXCEPT !.objs[p].TopProcesses = r.ref]

\* the value of adapter a's field in the deep value v of a snapshot
FieldOf(v, a) ==
    CASE a = "CPU"       -> <<v.CPU>>
      [] a = "Memory"    -> <<v.Memory>>
      [] a = "GPU"       -> <<v.GPU>>
      [] a = "Disk"      -> <<v.Disk>>
      [] a = "Network"   -> <<v.Network>>
      [] a = "Processes" -> <<v.TopProcesses>>

\* what adapter a's field holds once the k-th sample was written
ResultOf(a, k) ==
    CASE a = "CPU"       -> <<[UsagePercent |-> k, PerCorePercent |-> SliceLit(<<k>>)]>>
      [] a = "Memory"    -> <<[UsedPercent |-> k]>>
      [] a = "GPU"       -> <<[Available |-> TRUE, UsagePercent |-> k, TemperatureC |-> k]>>
      [] a = "Disk"      -> <<[ReadMBps |-> k, Disks |-> SliceLit(<<k>>)]>>
      [] a = "Network"   -> <<[DownloadKBps |-> k, Interfaces |-> SliceLit(<<k>>)]>>
      [] a = "Processes" -> <<SliceLit(SampleOf(a, k))>>

\* what adapter a's field holds in a snapshot fresh from NewMetrics
DefaultOf(a) ==
    CASE a = "CPU"       -> <<[UsagePercent |-> 0, PerCorePercent |-> [isNil |-> TRUE, elems |-> <<>>]]>>
      [] a = "Memory"    -> <<[UsedPercent |-> 0]>>
      [] a = "GPU"       -> <<[Available |-> FALSE, UsagePercent |-> 0, TemperatureC |-> 0]>>
      [] a = "Disk"      -> <<[ReadMBps |-> 0, Disks |-> [isNil |-> TRUE, elems |-> <<>>]]>>
      [] a = "Network"   -> <<[DownloadKBps |-> 0, Interfaces |-> [isNil |-> TRUE, elems |-> <<>>]]>>
      [] a = "Processes" -> <<SliceLit(<<>>)>>

\* the snapshot the late tasks of cycle k write to, NIL if there are none
LateTarget(lt, k) ==
    IF \E t \in lt : t.k = k THEN (CHOOSE t \in lt : t.k = k).m ELSE NIL

\* the pointers a state of the orchestrator holds
CollRoots(b, lp, c, chs, lt) ==
    DataSeq(b, 0) \o <<lp, c.m>> \o Flatten([ch \in Chans |-> chs[ch]])
        \o [k \in 1..MaxCycles |-> LateTarget(lt, k)]

\* the next state of the heap and of every variable that holds pointers
SetColl(h, b, lp, c, chs, lt) ==
    \E g \in {Sweep(h, CollRoots(b, lp, c, chs, lt))} :
        /\ objs' = g.objs
        /\ arrs' = g.arrs
        /\ rb' = [b EXCEPT !.data = [i \in DOMAIN b.data |-> g.ren[b.data[i]]]]
        /\ latestPtr' = g.ren[lp]
        /\ col' = [c EXCEPT !.m = g.ren[c.m]]
        /\ chans' = [ch \in Chans |-> [i \in 1..Len(chs[ch]) |-> g.ren[chs[ch][i]]]]
        /\ late' = {[t EXCEPT !.m = g.ren[t.m]] : t \in lt}

ptrVars == <<objs, arrs, rb, latestPtr, chans, late>>
storeVars == <<held, muts, added, lastOp, before, agg, mu, pc, reg, adds, reads>>

\* the launch order of the tasks in collect()
AdapterOrder == <<"CPU", "Memory", "GPU", "Disk", "Network", "Processes">>

\* the adapters whose Collect() may outlast the ceiling or panic
Faulty == {AdapterOrder[i] : i \in 1..Min(NumFaulty, Len(AdapterOrder))}

\* the sets of adapters that may be slow in the next cycle
SlowChoices(gpu) ==
    {S \in SUBSET (Launched(gpu, cfg) \cap Faulty) :
        Cardinality(S) + used.slow <= MaxSlow}

\* the head of collect(): metrics := models.NewMetrics() and the launch of one
\* task per enabled sub-collector.  slow is the set of tasks that will not
\* have returned when the ceiling elapses.
BeginCollect(by, gpu, ts, slow) ==
    LET k == cycles + 1
        r == NewMetrics(Heap, ts, k)
        c == [pc |-> "wait", by |-> by, m |-> r.ref, idx |-> 0,
              tasks |-> [a \in Launched(gpu, cfg) |->
                            IF a \in slow THEN "slow" ELSE "run"]]
    IN  /\ SetColl(r.h, rb, latestPtr, c, chans, late)
        /\ cycles' = k
        /\ used' = [used EXCEPT !.slow = @ + Cardinality(slow)]

\* mutant: Start does not look at c.running
AlreadyRunningNever == FALSE

\* if c.running { return nil } at the head of Start
AlreadyRunning == running

\* mutant: Start has returned when its collect() begins
StartPhaseReturned == "idle"

\* Start is inside its call of c.collect() and has not returned
StartPhase == "starting"

\* Start(ctx) on a stopped collector, up to the call of the initial collect():
\* running = true, the cancellable context, GPU initialisation (which may fail)
Start(gpuFails, slow) ==
    /\ ctl = "idle"
    /\ ~AlreadyRunning
    /\ cycles < MaxCycles
    /\ gpuFails => gpuCollector
    /\ slow \in SlowChoices(gpuCollector /\ ~gpuFails)
    /\ running' = TRUE
    /\ ctx' = [ctx EXCEPT !.done = ctx.parentDone]
    /\ gpuCollector' = (gpuCollector /\ ~gpuFails)
    /\ ctl' = StartPhase
    /\ BeginCollect("start", gpuCollector', now, slow)
    /\ UNCHANGED <<panicked, cfg, loop, subscribers, now, pub, finalized, robs, sobs>>
    /\ UNCHANGED storeVars
    /\ UNCHANGED appVars

\* metrics.X = collector.Collect() for every adapter of order that is in S
RECURSIVE WriteResults(_, _, _, _, _)
WriteResults(h, p, S, k, order) ==
    IF order = <<>> THEN h
    ELSE Only({WriteResults(hv, p, S, k, Tail(order)) :
                  hv \in {IF Head(order) \in S
                          THEN WriteResult(h, p, Head(order), k) ELSE h}})

\* The tasks that return within the ceiling run to their end.  Each writes its
\* own field of metrics, which no other goroutine can read before collect()
\* goes on, so their interleaving is not observable and they are taken in one
\* step.  The tasks in panics panic in Collect(): recoverPanic logs and the
\* field is not written.
TasksFinish(panics) ==
    /\ col.pc = "wait"
    /\ LET prompt == {a \in DOMAIN col.tasks : col.tasks[a] = "run"}
       IN  /\ prompt # {}
           /\ panics \subseteq prompt \cap Faulty
           /\ Cardinality(panics) + used.panics <= MaxPanics
           /\ used' = [used EXCEPT !.panics = @ + Cardinality(panics)]
           /\ SetColl(WriteResults(Heap, col.m, prompt \ panics, cycles, AdapterOrder),
                      rb, latestPtr,
                      [col EXCEPT !.tasks = [a \in DOMAIN col.tasks |->
                            IF a \in panics THEN "panic"
                            ELSE IF a \in prompt THEN "done" ELSE col.tasks[a]]],
                      chans, late)
    /\ UNCHANGED <<panicked, cfg, gpuCollector, running, ctl, loop, ctx,
                   subscribers, now, cycles, pub, finalized, robs, sobs>>
    /\ UNCHANGED storeVars
    /\ UNCHANGED appVars

\* mutant: wg.Done() is not deferred, a task that panics never reports
TaskOverNoDefer(st) == st = "done"

\* defer wg.Done(); defer recoverPanic(name): the task has reported to the
\* wait group, whether Collect() returned or panicked
TaskOver(st) == st \in {"done", "panic"}

\* case <-done: wg.Wait() returned, every task is over
CollectDone ==
    /\ col.pc = "wait"
    /\ \A a \in DOMAIN col.tasks : TaskOver(col.tasks[a])
    /\ col' = [col EXCEPT !.pc = "add"]
    /\ UNCHANGED ptrVars
    /\ UNCHANGED <<panicked, cfg, gpuCollector, running, ctl, loop, ctx,
                   subscribers, now, cycles, used, pub, finalized, robs, sobs>>
    /\ UNCHANGED storeVars
    /\ UNCHANGED appVars

\* mutant: no ceiling, collect() only goes on once every task has returned
CollectTimeoutNever ==
    /\ col.pc = "wait"
    /\ FALSE
    /\ UNCHANGED vars

\* case <-time.After(800 * time.Millisecond): the tasks that have not
\* returned keep running with their pointer to metrics
CollectTimeout ==
    /\ col.pc = "wait"
    /\ \A a \in DOMAIN col.tasks : col.tasks[a] # "run"
    /\ \E a \in DOMAIN col.tasks : col.tasks[a] = "slow"
    /\ col' = [col EXCEPT !.pc = "add"]
    /\ late' = late \cup {[m |-> col.m, a |-> a, k |-> cycles] :
                             a \in {x \in DOMAIN col.tasks : col.tasks[x] = "slow"}}
    /\ UNCHANGED <<objs, arrs, rb, latestPtr, chans>>
    /\ UNCHANGED <<panicked, cfg, gpuCollector, running, ctl, loop, ctx,
                   subscribers, now, cycles, used, pub, finalized, robs, sobs>>
    /\ UNCHANGED storeVars
    /\ UNCHANGED appVars

\* c.storage.Add(metrics)
CollectAdd ==
    /\ col.pc = "add"
    /\ \E r \in {Add(Heap, rb, col.m)} :
           /\ SetColl(r.h, r.b, latestPtr, [col EXCEPT !.pc = "publish"], chans, late)
           /\ panicked' = (panicked \/ r.panic)
    /\ UNCHANGED <<cfg, gpuCollector, running, ctl, loop, ctx,
                   subscribers, now, cycles, used, pub, finalized, robs, sobs>>
    /\ UNCHANGED storeVars
    /\ UNCHANGED appVars

\* the adapters of the cycle in progress whose task has returned a result
Returned == {a \in DOMAIN col.tasks : col.tasks[a] = "done"}

\* the adapters whose task is still running for the snapshot at p
Pending(p) == {t.a : t \in {x \in late : x.m = p}}

\* atomic.StorePointer(&c.latestPtr, unsafe.Pointer(metrics)), and the
\* subMu.RLock() of notifySubscribers
CollectPublish ==
    /\ col.pc = "publish"
    /\ SetColl(Heap, rb, col.m, [col EXCEPT !.pc = "notify", !.idx = 1], chans, late)
    /\ pub' = Append(pub, [cycle    |-> cycles,
                           val      |-> Deep(Heap, col.m),
                           launched |-> DOMAIN col.tasks,
                           returned |-> Returned,
                           faulted  |-> {a \in DOMAIN col.tasks : col.tasks[a] = "panic"},
                           pending  |-> Pending(col.m)])
    /\ UNCHANGED <<panicked, cfg, gpuCollector, running, ctl, loop, ctx,
                   subscribers, now, cycles, used, finalized, robs, sobs>>
    /\ UNCHANGED storeVars
    /\ UNCHANGED appVars

\* mutant: a full channel gives up its oldest element for the new one
TrySendEvict(q, p) == IF Len(q) < QueueCap THEN Append(q, p) ELSE Append(Tail(q), p)

\* select { case ch <- metrics: default: } on a channel holding q
TrySend(q, p) == IF Len(q) < QueueCap THEN Append(q, p) ELSE q

\* one iteration of the loop of notifySubscribers
NotifySend ==
    /\ col.pc = "notify"
    /\ col.idx <= Len(subscribers)
    /\ LET ch == subscribers[col.idx]
       IN  SetColl(Heap, rb, latestPtr, [col EXCEPT !.idx = @ + 1],
                   [chans EXCEPT ![ch] = TrySend(@, col.m)], late)
    /\ UNCHANGED <<panicked, cfg, gpuCollector, running, ctl, loop, ctx,
                   subscribers, now, cycles, used, pub, finalized, robs, sobs>>
    /\ UNCHANGED storeVars
    /\ UNCHANGED appVars

\* time.NewTicker(d) panics on a non-positive interval
NewTicker(d) == [panic |-> d <= 0]

\* notifySubscribers and collect() return.  In Start the caller goes on to
\* wg.Add(1); go c.collectionLoop(ctx) and returns, and the new goroutine
\* creates its ticker: it is at its select, or NewTicker panicked, the
\* deferred recover() logged it and the goroutine is over.  In the loop the
\* goroutine is back at its select.
CollectReturn ==
    /\ col.pc = "notify"
    /\ col.idx > Len(subscribers)
    /\ SetColl(Heap, rb, latestPtr, NoCollect, chans, late)
    /\ finalized' = finalized + 1
    /\ \E t \in {NewTicker(cfg.UpdateInterval)} :
          /\ loop' = IF col.by = "start" /\ t.panic THEN "none" ELSE "select"
          /\ panicked' = (panicked \/ (col.by = "start" /\ t.panic))
    /\ ctl' = IF col.by = "start" THEN "idle" ELSE ctl
    /\ UNCHANGED <<cfg, gpuCollector, running, ctx,
                   subscribers, now, cycles, used, pub, robs, sobs>>
    /\ UNCHANGED storeVars
    /\ UNCHANGED appVars

\* a task that returns after its cycle timed out: it still executes
\* metrics.X = collector.Collect() on the metrics of that cycle
LateReturn(t) ==
    /\ t \in late
    /\ SetColl(WriteResult(Heap, t.m, t.a, t.k), rb, latestPtr, col, chans, late \ {t})
    /\ UNCHANGED <<panicked, cfg, gpuCollector, running, ctl, loop, ctx,
                   subscribers, now, cycles, used, pub, finalized, robs, sobs>>
    /\ UNCHANGED storeVars
    /\ UNCHANGED appVars

\* case <-ticker.C: c.collect()
LoopTick(slow) ==
    /\ loop = "select"
    /\ cycles < MaxCycles
    /\ slow \in SlowChoices(gpuCollector)
    /\ loop' = "collect"
    /\ now' = now + 1
    /\ BeginCollect("loop", gpuCollector, now', slow)
    /\ UNCHANGED <<panicked, cfg, gpuCollector, running, ctl, ctx,
                   subscribers, pub, finalized, robs, sobs>>
    /\ UNCHANGED storeVars
    /\ UNCHANGED appVars

\* case <-ctx.Done(): return (and the deferred wg.Done())
LoopExit ==
    /\ loop = "select"
    /\ ctx.done
    /\ loop' = "none"
    /\ UNCHANGED ptrVars
    /\ UNCHANGED <<panicked, cfg, gpuCollector, running, ctl, ctx, col,
                   subscribers, now, cycles, used, pub, finalized, robs, sobs>>
    /\ UNCHANGED storeVars
    /\ UNCHANGED appVars

\* mutant: Stop does not cancel the context of the loop
StopNoCancel ==
    /\ ctl = "idle"
    /\ running
    /\ running' = FALSE
    /\ ctl' = "stopping"
    /\ UNCHANGED ptrVars
    /\ UNCHANGED <<panicked, cfg, gpuCollector, loop, col, ctx,
                   subscribers, now, cycles, used, pub, finalized, robs, sobs>>
    /\ UNCHANGED storeVars
    /\ UNCHANGED appVars

\* Stop() on a running collector, up to wg.Wait(): running = false; c.cancel()
Stop ==
    /\ ctl = "idle"
    /\ running
    /\ running' = FALSE
    /\ ctx' = [ctx EXCEPT !.done = TRUE]
    /\ ctl' = "stopping"
    /\ UNCHANGED ptrVars
    /\ UNCHANGED <<panicked, cfg, gpuCollector, loop, col,
                   subscribers, now, cycles, used, pub, finalized, robs, sobs>>
    /\ UNCHANGED storeVars
    /\ UNCHANGED appVars

\* mutant: Stop does not wait for the loop goroutine
WgWaitNever == TRUE

\* c.wg.Wait() can return: the loop goroutine has run its deferred wg.Done()
WgWait == loop = "none"

\* wg.Wait() returns once the loop goroutine is gone; Stop returns
StopReturn ==
    /\ ctl = "stopping"
    /\ WgWait
    /\ ctl' = "idle"
    /\ UNCHANGED ptrVars
    /\ UNCHANGED <<panicked, cfg, gpuCollector, running, loop, ctx, col,
                   subscribers, now, cycles, used, pub, finalized, robs, sobs>>
    /\ UNCHANGED storeVars
    /\ UNCHANGED appVars

\* ---- Start and Stop called from several goroutines.  Only the fields the
\* two share are kept: running (under c.mu), cancel, the wait group and the
\* loop goroutines; a loop is alive from "go c.collectionLoop(ctx)" to its
\* return on ctx.Done().
coreVars == <<objs, arrs, rb, panicked, storeVars, collVars>>
notLife == <<coreVars, shutVars, alertVars, keyVars>>
notShut == <<coreVars, lifeVars, alertVars, keyVars>>
notAlert == <<coreVars, lifeVars, shutVars, keyVars>>
notKeys == <<coreVars, lifeVars, shutVars, alertVars>>

\* the head of Start, under c.mu: return nil if running, else running = true
StartLocked(t) ==
    /\ callers[t].pc = "idle"
    /\ life.calls < MaxCalls
    /\ life' = [life EXCEPT !.calls = @ + 1, !.running = TRUE]
    /\ callers' = IF life.running THEN callers
                  ELSE [callers EXCEPT ![t].pc = "withCancel"]
    /\ UNCHANGED notLife

\* ctx, c.cancel = context.WithCancel(ctx), with no lock held; GPU and
\* network initialisation; the caller enters the initial c.collect()
StartWithCancel(t) ==
    /\ callers[t].pc = "withCancel"
    /\ life' = [life EXCEPT !.ctxs = @ + 1, !.cancel = life.ctxs + 1]
    /\ callers' = [callers EXCEPT ![t] = [pc |-> "collect", ctx |-> life.ctxs + 1]]
    /\ UNCHANGED notLife

\* the initial collect() is over: c.wg.Add(1); go c.collectionLoop(ctx); return
StartSpawn(t) ==
    /\ callers[t].pc = "collect"
    /\ life' = [life EXCEPT !.wg = @ + 1, !.loops = @ \cup {callers[t].ctx}]
    /\ callers' = [callers EXCEPT ![t] = [pc |-> "idle", ctx |-> 0]]
    /\ UNCHANGED notLife

\* the head of Stop, under c.mu: return if not running, else running = false
StopLocked(t) ==
    /\ callers[t].pc = "idle"
    /\ life.calls < MaxCalls
    /\ life' = [life EXCEPT !.calls = @ + 1, !.running = FALSE]
    /\ callers' = IF life.running THEN [callers EXCEPT ![t].pc = "cancel"]
                  ELSE callers
    /\ UNCHANGED notLife

\* if c.cancel != nil { c.cancel() }, with no lock held
StopCancel(t) ==
    /\ callers[t].pc = "cancel"
    /\ life' = [life EXCEPT !.cancelled = @ \cup ({life.cancel} \ {0})]
    /\ callers' = [callers EXCEPT ![t].pc = "wait"]
    /\ UNCHANGED notLife

\* c.wg.Wait() returns when the counter is zero; GPU shutdown; Stop returns
StopWait(t) ==
    /\ callers[t].pc = "wait"
    /\ life.wg = 0
    /\ callers' = [callers EXCEPT ![t].pc = "idle"]
    /\ UNCHANGED life
    /\ UNCHANGED notLife

\* the loop started with context l: case <-ctx.Done(): return, and the
\* deferred c.wg.Done()
LoopDone(l) ==
    /\ l \in life.loops \cap life.cancelled
    /\ life' = [life EXCEPT !.loops = @ \ {l}, !.wg = @ - 1]
    /\ UNCHANGED callers
    /\ UNCHANGED notLife

NextLife ==
    \/ \E t \in Callers : StartLocked(t)
    \/ \E t \in Callers : StartWithCancel(t)
    \/ \E t \in Callers : StartSpawn(t)
    \/ \E t \in Callers : StopLocked(t)
    \/ \E t \in Callers : StopCancel(t)
    \/ \E t \in Callers : StopWait(t)
    \/ \E l \in life.loops : LoopDone(l)

SpecLife == InitStore /\ [][NextLife]_vars

\* ---- the Alerter
\* the metrics Check is called with: every value just below its threshold or
\* at it, the GPU available or not, the disk list empty or with one disk
CheckInputs ==
    LET c == AlertsConfig
    IN  [CPU : {c.CPUThreshold - 1, c.CPUThreshold},
         RAM : {c.RAMThreshold - 1, c.RAMThreshold},
         GPU : {[Available |-> FALSE, UsagePercent |-> 0, TemperatureC |-> 0]}
                 \cup [Available : {TRUE},
                       UsagePercent : {c.GPUThreshold - 1, c.GPUThreshold},
                       TemperatureC : {c.GPUTempThreshold - 1, c.GPUTempThreshold}],
         Disks : {<<>>} \cup {<<[Path |-> "C:", UsedPercent |-> v]>> :
                                 v \in {c.DiskThreshold - 1, c.DiskThreshold}}]

\* the comparisons of Check in their order: key, value, threshold
Comparisons(c, m) ==
    <<[key |-> "cpu", value |-> m.CPU, threshold |-> c.CPUThreshold],
      [key |-> "ram", value |-> m.RAM, threshold |-> c.RAMThreshold]>>
    \o (IF m.GPU.Available
        THEN <<[key |-> "gpu", value |-> m.GPU.UsagePercent,
                threshold |-> c.GPUThreshold],
               [key |-> "gpu_temp", value |-> m.GPU.TemperatureC,
                threshold |-> c.GPUTempThreshold]>>
        ELSE <<>>)
    \o [i \in 1..Len(m.Disks) |->
           [key |-> "disk_" \o m.Disks[i].Path, value |-> m.Disks[i].UsedPercent,
            threshold |-> c.DiskThreshold]]

\* clearActiveAlert(key)
ClearActiveAlert(a, key) == [a EXCEPT !.active = @ \ {key}]

\* mutant: an alert is raised whether or not its key is active
TriggerAlertAlways(a, e) ==
    [a EXCEPT !.active = @ \cup {e.key},
              !.history = IF Len(@) >= 100 THEN Append(Tail(@), e) ELSE Append(@, e),
              !.sent = Append(@, e)]

\* triggerAlert(key, ...): nothing if the key is active; else the key becomes
\* active, the alert is appended to the history (the last 100 are kept) and
\* handed to the handlers
TriggerAlert(a, e) ==
    IF e.key \in a.active THEN a
    ELSE [a EXCEPT !.active = @ \cup {e.key},
                   !.history = IF Len(@) >= 100 THEN Append(Tail(@), e) ELSE Append(@, e),
                   !.sent = Append(@, e)]

\* the body of Check over the comparisons es
RECURSIVE CheckAll(_, _)
CheckAll(a, es) ==
    IF es = <<>> THEN a
    ELSE CheckAll(IF Head(es).value >= Head(es).threshold
                  THEN TriggerAlert(a, Head(es))
                  ELSE ClearActiveAlert(a, Head(es).key), Tail(es))

\* Check(metrics): nothing unless running and enabled
Check(m) ==
    /\ aobs.calls < MaxChecks
    /\ IF ~al.running \/ ~al.config.Enabled
       THEN /\ al' = al
            /\ aobs' = [aobs EXCEPT !.calls = @ + 1, !.raised = <<>>, !.m = <<>>]
       ELSE /\ al' = CheckAll(al, Comparisons(al.config, m))
            /\ aobs' = [m |-> <<m>>, prev |-> aobs.seen,
                        seen |-> [k \in AlertKeys |->
                            LET es == SelectSeq(Comparisons(al.config, m),
                                                LAMBDA e : e.key = k)
                            IN  IF es = <<>> THEN aobs.seen[k]
                                ELSE IF es[Len(es)].value >= es[Len(es)].threshold
                                     THEN "above" ELSE "below"],
                        raised |-> SubSeq(al'.sent, Len(al.sent) + 1, Len(al'.sent)),
                        calls |-> aobs.calls + 1]
    /\ UNCHANGED notAlert

\* ResetCooldowns(): both maps are made anew
ResetCooldowns ==
    /\ al.active # {}
    /\ al' = [al EXCEPT !.active = {}]
    /\ aobs' = [aobs EXCEPT !.seen = [k \in AlertKeys |-> "new"], !.raised = <<>>]
    /\ UNCHANGED notAlert

\* Start(ctx), Stop() and SetEnabled(enabled) of the alerter
AlerterSwitch(field, v) ==
    /\ al' = IF field = "running" THEN [al EXCEPT !.running = v]
             ELSE [al EXCEPT !.config.Enabled = v]
    /\ al' # al
    /\ aobs' = [aobs EXCEPT !.raised = <<>>]
    /\ UNCHANGED notAlert

NextAlert ==
    \/ \E m \in CheckInputs : Check(m)
    \/ ResetCooldowns
    \/ \E f \in {"running", "enabled"}, v \in BOOLEAN : AlerterSwitch(f, v)

SpecAlert == InitStore /\ [][NextAlert]_vars

\* ---- the hotkey manager
\* Start(ctx) of a manager whose last loop is gone: running = true, a new
\* cancellable context, wg.Add(1); go m.messageLoop(ctx)
KeysStart ==
    /\ ~hk.running
    /\ hk.loop = "none"
    /\ hk' = [hk EXCEPT !.running = TRUE, !.cancelled = FALSE, !.loop = "alive"]
    /\ UNCHANGED regs
    /\ UNCHANGED notKeys

\* Stop() up to wg.Wait(): running = false, m.cancel(), Unregister of every
\* handler recorded
KeysStop ==
    /\ hk.running
    /\ hk' = [hk EXCEPT !.running = FALSE, !.cancelled = TRUE, !.handlers = {}]
    /\ UNCHANGED regs
    /\ UNCHANGED notKeys

\* Register(id, hotkey, handler) by t, with parses what utils.ParseHotkey
\* will say of hotkey and os what RegisterHotKey will: the registration is
\* queued and t waits on its resultCh, or registerCh is full and t returns nil
Register(t, id, parses, os) ==
    /\ regs[t].pc = "idle"
    /\ hk.calls < MaxRegisters
    /\ IF Len(hk.registerCh) < RegisterChCap
       THEN /\ hk' = [hk EXCEPT !.calls = @ + 1,
                                !.registerCh = Append(@, [by |-> t, id |-> id,
                                                         parses |-> parses, os |-> os])]
            /\ regs' = [regs EXCEPT ![t] = [pc |-> "result", resultCh |-> <<>>,
                                            got |-> <<>>]]
       ELSE /\ hk' = [hk EXCEPT !.calls = @ + 1]
            /\ regs' = [regs EXCEPT ![t].got = <<[id |-> id, recorded |-> FALSE,
                                                  os |-> FALSE]>>]
    /\ UNCHANGED notKeys

\* mutant: the loop records the handler whatever RegisterHotKey returned
RegisterInternalAlways(rq) ==
    [err |-> IF rq.parses /\ ~rq.os THEN "err" ELSE "nil", recorded |-> TRUE]

\* registerInternal: nil and nothing recorded if the hotkey does not parse,
\* the error of RegisterHotKey if it fails, else the handler is recorded
RegisterInternal(rq) ==
    [err |-> IF rq.parses /\ ~rq.os THEN "err" ELSE "nil",
     recorded |-> rq.parses /\ rq.os]

\* case reg := <-m.registerCh: registerInternal and reg.resultCh <- err
MessageLoopRegister ==
    /\ hk.loop = "alive"
    /\ hk.registerCh # <<>>
    /\ \E rq \in {Head(hk.registerCh)} : \E r \in {RegisterInternal(rq)} :
          /\ hk' = [hk EXCEPT !.registerCh = Tail(@),
                              !.handlers = IF r.recorded THEN @ \cup {rq.id} ELSE @]
          /\ regs' = [regs EXCEPT ![rq.by].resultCh = <<r.err>>,
                                  ![rq.by].got = <<[id |-> rq.id, recorded |-> r.recorded,
                                                     os |-> rq.parses /\ rq.os]>>]
    /\ UNCHANGED notKeys

\* case <-ctx.Done(): return, and the deferred wg.Done(): Stop returns
MessageLoopExit ==
    /\ hk.loop = "alive"
    /\ hk.cancelled
    /\ hk' = [hk EXCEPT !.loop = "none"]
    /\ UNCHANGED regs
    /\ UNCHANGED notKeys

\* return <-reg.resultCh
RegisterReturn(t) ==
    /\ regs[t].pc = "result"
    /\ regs[t].resultCh # <<>>
    /\ regs' = [regs EXCEPT ![t].pc = "idle", ![t].resultCh = <<>>]
    /\ UNCHANGED hk
    /\ UNCHANGED notKeys

NextKeys ==
    \/ KeysStart
    \/ KeysStop
    \/ \E t \in Registrants, id \in HotkeyIDs, p \in BOOLEAN, o \in BOOLEAN :
          Register(t, id, p, o)
    \/ MessageLoopRegister
    \/ MessageLoopExit
    \/ \E t \in Registrants : RegisterReturn(t)

\* The loop goroutine and the callers of Register are scheduled; whether and
\* when Start and Stop are called is up to the application.
SpecKeys ==
    /\ InitStore
    /\ [][NextKeys]_vars
    /\ WF_vars(MessageLoopRegister)
    /\ WF_vars(MessageLoopExit)
    /\ WF_vars(\E t \in Registrants : RegisterReturn(t))

\* ---- Application.shutdown
\* app.shutdown(): shutdownOnce.Do(f).  The first caller runs f up to its
\* select: app.cancel() and the launch of the goroutine that stops the
\* components.  A caller that finds f running waits for it to return; one
\* that finds it done returns at once.
Shutdown(t) ==
    /\ req[t] = "idle"
    /\ app.calls < MaxRequests
    /\ app' = IF app.once = "new"
              THEN [app EXCEPT !.calls = @ + 1, !.once = "running",
                               !.cancelled = TRUE, !.stopper = 1]
              ELSE [app EXCEPT !.calls = @ + 1]
    /\ req' = [req EXCEPT ![t] = CASE app.once = "new"     -> "select"
                                   [] app.once = "running" -> "blocked"
                                   [] app.once = "done"    -> "idle"]
    /\ UNCHANGED notShut

\* the Stop() of the next component returns; after the last, close(done)
ComponentStopped ==
    /\ app.stopper \in DOMAIN Components
    /\ app' = [app EXCEPT !.stopped[app.stopper] = @ + 1, !.stopper = @ + 1]
    /\ UNCHANGED req
    /\ UNCHANGED notShut

\* mutant: the select waits for the components only
SelectDoneOnly(t) ==
    /\ req[t] = "select"
    /\ app.stopper > Len(Components)
    /\ req' = [req EXCEPT ![t] = "save"]
    /\ UNCHANGED app
    /\ UNCHANGED notShut

\* select { case <-done: case <-time.After(2 * time.Second): }
Select(t) ==
    /\ req[t] = "select"
    /\ \/ app.stopper > Len(Components) /\ UNCHANGED app
       \/ app.stopper <= Len(Components) /\ app' = [app EXCEPT !.timedOut = TRUE]
    /\ req' = [req EXCEPT ![t] = "save"]
    /\ UNCHANGED notShut

\* the rest of f: configMgr.Save(), log.Close(), tray.Quit(), the launch of
\* the goroutine that exits the process; f returns and Do with it
ShutdownTail(t) ==
    /\ req[t] = "save"
    /\ app' = [app EXCEPT !.saved = @ + 1, !.logClosed = @ + 1,
                          !.trayQuit = @ + 1, !.once = "done"]
    /\ req' = [req EXCEPT ![t] = "idle"]
    /\ UNCHANGED notShut

\* Do returns in a caller that waited for f
OnceReturn(t) ==
    /\ req[t] = "blocked"
    /\ app.once = "done"
    /\ req' = [req EXCEPT ![t] = "idle"]
    /\ UNCHANGED app
    /\ UNCHANGED notShut

NextShutdown ==
    \/ \E t \in Requesters : Shutdown(t)
    \/ ComponentStopped
    \/ \E t \in Requesters : Select(t)
    \/ \E t \in Requesters : ShutdownTail(t)
    \/ \E t \in Requesters : OnceReturn(t)

\* The goroutines that request the shutdown are scheduled and the timer of
\* the select fires; the Stop() of a component may never return.
SpecShutdown ==
    /\ InitStore
    /\ [][NextShutdown]_vars
    /\ WF_vars(\E t \in Requesters : Select(t))
    /\ WF_vars(\E t \in Requesters : ShutdownTail(t))
    /\ WF_vars(\E t \in Requesters : OnceReturn(t))

\* the owner of channel ch, if it is observed, notes v under f
Note(ch, f, v) ==
    IF ch \in DOMAIN sobs THEN [sobs EXCEPT ![ch][f] = v] ELSE sobs

\* Subscribe(ch), under subMu.Lock()
Subscribe(ch) ==
    /\ col.pc # "notify"
    /\ Len(subscribers) < MaxSubs
    /\ subscribers' = Append(subscribers, ch)
    /\ sobs' = Note(ch, "unsubAt", 0 - 1)
    /\ UNCHANGED ptrVars
    /\ UNCHANGED <<panicked, cfg, gpuCollector, running, ctl, loop, ctx, col,
                   now, cycles, used, pub, finalized, robs>>
    /\ UNCHANGED storeVars
    /\ UNCHANGED appVars

\* the subscribers left when the first registration of ch is removed
RemoveFirst(subs, ch) ==
    IF ch \notin Range(subs) THEN subs
    ELSE LET i == CHOOSE j \in 1..Len(subs) :
                      subs[j] = ch /\ \A l \in 1..(j - 1) : subs[l] # ch
         IN  SubSeq(subs, 1, i - 1) \o SubSeq(subs, i + 1, Len(subs))

\* Unsubscribe(ch), under subMu.Lock()
Unsubscribe(ch) ==
    /\ col.pc # "notify"
    /\ subscribers' = RemoveFirst(subscribers, ch)
    /\ sobs' = Note(ch, "unsubAt", Len(pub))
    /\ UNCHANGED ptrVars
    /\ UNCHANGED <<panicked, cfg, gpuCollector, running, ctl, loop, ctx, col,
                   now, cycles, used, pub, finalized, robs>>
    /\ UNCHANGED storeVars
    /\ UNCHANGED appVars

\* the owner of channel ch receives: metrics := <-ch
Dequeue(ch) ==
    /\ chans[ch] # <<>>
    /\ SetColl(Heap, rb, latestPtr, col, [chans EXCEPT ![ch] = Tail(@)], late)
    /\ sobs' = Note(ch, "last", objs[Head(chans[ch])].Cycle)
    /\ UNCHANGED <<panicked, cfg, gpuCollector, running, ctl, loop, ctx,
                   subscribers, now, cycles, used, pub, finalized, robs>>
    /\ UNCHANGED storeVars
    /\ UNCHANGED appVars

\* mutant: the load is taken for nil whatever the cell holds
CollectorGetLatestNil(ptr) == NIL

\* func (c *Collector) GetLatest() *models.Metrics: atomic load, nil or the pointer
CollectorGetLatest(ptr) == IF ptr = NIL THEN NIL ELSE ptr

\* what a reader notes of the pointer p it got from GetLatest
Observe(p) ==
    IF p = NIL THEN NoObs
    ELSE [cycle |-> objs[p].Cycle, ts |-> objs[p].Timestamp]

\* reader r calls c.GetLatest()
ReaderGetLatest(r) ==
    /\ LET o == Observe(CollectorGetLatest(latestPtr))
       IN  robs' = [robs EXCEPT ![r] =
                       [last    |-> o,
                        ordered |-> @.ordered /\ o.cycle >= @.last.cycle
                                              /\ o.ts >= @.last.ts]]
    /\ UNCHANGED ptrVars
    /\ UNCHANGED <<panicked, cfg, gpuCollector, running, ctl, loop, ctx, col,
                   subscribers, now, cycles, used, pub, finalized, sobs>>
    /\ UNCHANGED storeVars
    /\ UNCHANGED appVars

\* reader r writes through the pointer it got: m := c.GetLatest();
\* m.CPU.UsagePercent = 99
ReaderMutate(r) ==
    /\ muts < MaxMutations
    /\ \E p \in {CollectorGetLatest(latestPtr)} :
          /\ p # NIL
          /\ objs[p].CPU.UsagePercent # MutatedValue
          /\ objs' = [objs EXCEPT ![p].CPU.UsagePercent = MutatedValue]
    /\ muts' = muts + 1
    /\ UNCHANGED <<arrs, rb, latestPtr, chans, late>>
    /\ UNCHANGED <<panicked, cfg, gpuCollector, running, ctl, loop, ctx, col,
                   subscribers, now, cycles, used, pub, finalized, robs, sobs>>
    /\ UNCHANGED <<held, added, lastOp, before, agg, mu, pc, reg, adds, reads>>
    /\ UNCHANGED appVars

\* func (c *Collector) IsRunning() bool, under mu.RLock()
IsRunning == running

\* the owner of the context handed to Start cancels it: the context derived
\* in Start by context.WithCancel(ctx) is done with it
ParentCancel ==
    /\ ~ctx.parentDone
    /\ ctx' = [parentDone |-> TRUE, done |-> TRUE]
    /\ UNCHANGED ptrVars
    /\ UNCHANGED <<panicked, cfg, gpuCollector, running, ctl, loop, col,
                   subscribers, now, cycles, used, pub, finalized, robs, sobs>>
    /\ UNCHANGED storeVars
    /\ UNCHANGED appVars

\* the state after New(cfg), before Start, with o what the owners of the
\* observed channels have noted
InitObs(o) ==
    /\ \E g \in BOOLEAN, e \in BOOLEAN :
          InitCollector(MonitoringConfig(g, e, Capacity * Second))
    /\ objs = <<>>
    /\ arrs = <<>>
    /\ rb = HistoryOf(cfg)
    /\ panicked = FALSE
    /\ held = <<>>
    /\ muts = 0
    /\ added = <<>>
    /\ lastOp = "init"
    /\ before = <<>>
    /\ agg = AggNoCall
    /\ mu = NewRWMutex
    /\ pc = [p \in Producers \cup Consumers |-> "idle"]
    /\ reg = [p \in Producers \cup Consumers |-> 0]
    /\ adds = [p \in Producers |-> 0]
    /\ reads = [c \in Consumers |-> 0]
    /\ sobs = o

\* the state after New(cfg), before Start; no channel is observed
Init == InitObs(<<>>)

\* the same state with every channel observed
InitSub == InitObs([ch \in Chans |-> [last |-> 0, unsubAt |-> 0 - 1]])

\* the steps of the driver: collect() and the loop around it
DriverStep ==
    \/ CollectDone
    \/ CollectTimeout
    \/ CollectAdd
    \/ CollectPublish
    \/ NotifySend
    \/ CollectReturn

Next ==
    \/ \E f \in BOOLEAN, s \in SUBSET Faulty : Start(f, s)
    \/ \E P \in SUBSET Faulty : TasksFinish(P)
    \/ DriverStep
    \/ \E t \in late : LateReturn(t)
    \/ \E s \in SUBSET Faulty : LoopTick(s)
    \/ LoopExit
    \/ Stop
    \/ StopReturn
    \/ \E ch \in Chans : Subscribe(ch)
    \/ \E ch \in Chans : Unsubscribe(ch)
    \/ \E ch \in Chans : Dequeue(ch)
    \/ \E r \in Readers : ReaderGetLatest(r)

Spec == Init /\ [][Next]_vars

\* the collector with an owner that may cancel the context it gave to Start
NextCancel ==
    \/ Next
    \/ ParentCancel

SpecCancel == Init /\ [][NextCancel]_vars

\* the collector with the owners of its channels observed
SpecSub == InitSub /\ [][Next]_vars

\* the state after New(cfg) for a history of 1..Capacity seconds
InitRun ==
    /\ \E g \in BOOLEAN, e \in BOOLEAN, d \in 1..Capacity :
          InitCollector(MonitoringConfig(g, e, d * Second))
    /\ objs = <<>>
    /\ arrs = <<>>
    /\ rb = HistoryOf(cfg)
    /\ panicked = FALSE
    /\ held = <<>>
    /\ muts = 0
    /\ added = <<>>
    /\ lastOp = "init"
    /\ before = <<>>
    /\ agg = AggNoCall
    /\ mu = NewRWMutex
    /\ pc = [p \in Producers \cup Consumers |-> "idle"]
    /\ reg = [p \in Producers \cup Consumers |-> 0]
    /\ adds = [p \in Producers |-> 0]
    /\ reads = [c \in Consumers |-> 0]
    /\ sobs = <<>>

\* a collector without subscribers whose adapters all return in time
NextRun ==
    \/ \E f \in BOOLEAN : Start(f, {})
    \/ TasksFinish({})
    \/ CollectDone
    \/ CollectAdd
    \/ CollectPublish
    \/ CollectReturn
    \/ LoopTick({})
    \/ LoopExit
    \/ Stop
    \/ StopReturn

SpecRun == InitRun /\ [][NextRun]_vars

\* a collector whose adapters all return in time, with subscribers and with
\* readers of GetLatest that write to what they got
NextShare ==
    \/ NextRun
    \/ NotifySend
    \/ \E ch \in Chans : Subscribe(ch)
    \/ \E ch \in Chans : Dequeue(ch)
    \/ \E r \in Readers : ReaderGetLatest(r)
    \/ \E r \in Readers : ReaderMutate(r)

SpecShare == InitRun /\ [][NextShare]_vars

\* the state after New(cfg) for configurations as they may be loaded: update
\* intervals and top process counts inside and outside the valid ranges
\* (durations in milliseconds)
InitCfg ==
    /\ \E g \in BOOLEAN, e \in BOOLEAN, d \in 1..Capacity,
          i \in {0 - Second, 0, 50, 100, 500, Second, 2 * Second},
          n \in {0 - 1, 0, 1, 50, 51} :
          InitCollector([MonitoringConfig(g, e, d * Second)
                            EXCEPT !.UpdateInterval = i, !.TopProcessCount = n])
    /\ objs = <<>>
    /\ arrs = <<>>
    /\ rb = HistoryOf(cfg)
    /\ panicked = FALSE
    /\ held = <<>>
    /\ muts = 0
    /\ added = <<>>
    /\ lastOp = "init"
    /\ before = <<>>
    /\ agg = AggNoCall
    /\ mu = NewRWMutex
    /\ pc = [p \in Producers \cup Consumers |-> "idle"]
    /\ reg = [p \in Producers \cup Consumers |-> 0]
    /\ adds = [p \in Producers |-> 0]
    /\ reads = [c \in Consumers |-> 0]
    /\ sobs = <<>>

SpecCfg == InitCfg /\ [][NextRun]_vars

\* The driver goroutine and the tasks that return within the ceiling are
\* scheduled: a step of collect() that can be taken is taken, and timers fire.
SpecFair ==
    /\ Init
    /\ [][Next]_vars
    /\ WF_vars(DriverStep)
    /\ WF_vars(\E P \in SUBSET Faulty : TasksFinish(P))

\* The same, and the loop goroutine at its select with a cancelled context
\* ends (select picks among the ready cases at random, so the tick cannot win
\* for ever), and a caller whose wg.Wait() can return goes on.
SpecStop ==
    /\ SpecFair
    /\ SF_vars(LoopExit)
    /\ WF_vars(StopReturn)

\* ------------------------------------------------ properties of the store
\* C1: for every sequence of add and clear calls, size() never exceeds the
\* capacity, no add fails, and last(capacity) is exactly the min(adds, capacity)
\* most recently added snapshots, oldest first (so an add on a full store
\* drops the oldest entry and keeps the others in order).
C1_BoundedFifo ==
    /\ Size(rb) <= CapacityOf(rb)
    /\ Size(rb) = Min(Len(added), CapacityOf(rb))
    /\ ~panicked
    /\ LastView(CapacityOf(rb)) =
           [vals |-> LastN(added, Min(Len(added), CapacityOf(rb))), panic |-> FALSE]

C1_Witness ==
    /\ lastOp = "add"
    /\ Len(added) > CapacityOf(rb) + 1
    /\ IsFull(rb)

\* C2: after k >= 1 adds latest() returns a snapshot deep-equal to the k-th
\* added one, also after wrap-around; on a store with no entries it returns
\* empty.  The result the client received from latest() is that value too.
C2_LatestIsNewest ==
    /\ LatestView = [empty |-> added = <<>>,
                     vals  |-> LastN(added, Min(Len(added), 1)),
                     panic |-> FALSE]
    /\ lastOp = "latest" => DeepSeq(Heap, held) = LastN(added, Min(Len(added), 1))

C2_Witness ==
    /\ lastOp = "latest"
    /\ Len(added) > CapacityOf(rb)
    /\ Len(held) = 1
    /\ Deep(Heap, held[1]) = added[Len(added)]
    /\ Deep(Heap, held[1]) # added[Len(added) - 1]

\* C3: in every reachable state last(n) returns the min(n, size()) most
\* recently added snapshots, oldest first, also after wrap-around; last(n)
\* with n <= 0 returns empty.
C3_LastIsSuffix ==
    \A n \in (0 - 1)..(CapacityOf(rb) + 1) :
        LastView(n) =
            [vals  |-> IF n <= 0 THEN <<>> ELSE LastN(added, Min(n, Min(Len(added), CapacityOf(rb)))),
             panic |-> FALSE]

C3_Witness ==
    /\ lastOp = "last"
    /\ Len(added) > CapacityOf(rb)
    /\ Len(held) = 2
    /\ DeepSeq(Heap, held) = LastN(added, 2)
    /\ Deep(Heap, held[1]) # Deep(Heap, held[2])

\* C4: copy isolation: a write by the caller to a snapshot it passed to add,
\* or to a snapshot returned by latest() or last(), scalar field or list
\* element, changes nothing of what latest() and last(n) return.
C4_CopyIsolation ==
    lastOp = "mutate" => StoreView = before

C4_Witness ==
    /\ lastOp = "mutate"
    /\ IsFull(rb)
    /\ Len(held) = 1
    /\ ~LatestView.empty
    /\ \E f \in {"Disks", "Interfaces"} :
          arrs[SliceOf(objs[held[1]], f)][1] = MutatedValue

\* C5: under any interleaving of add calls of several producers with
\* latest()/last()/size() calls of several consumers no operation panics (no
\* nil slot is dereferenced, no index is out of range), and whenever all calls
\* have returned size() is min(number of adds, capacity).
C5_ConcurrentAccess ==
    /\ ~panicked
    /\ AllIdle => Size(rb) = Min(TotalAdds, CapacityOf(rb))

C5_Witness ==
    /\ AllIdle
    /\ TotalAdds = NumProducers * AddsPerProducer
    /\ TotalAdds > CapacityOf(rb)
    /\ \A c \in Consumers : reads[c] = ReadsPerConsumer
    /\ IsFull(rb)

\* -------------------------------------------- properties of the collector
\* the pointers waiting in the subscribers' channels
ChanPtrs == UNION {Range(chans[ch]) : ch \in Chans}

\* the deep values of the history, oldest first
HistoryVals == LastView(CapacityOf(rb)).vals

\* the k-th publication holds the result of every adapter that returned
\* within the ceiling and the default of every adapter still running
FieldsAtPublication(k) ==
    /\ pub[k].cycle = k
    /\ \A a \in pub[k].returned : FieldOf(pub[k].val, a) = ResultOf(a, k)
    /\ \A a \in pub[k].pending  : FieldOf(pub[k].val, a) = DefaultOf(a)

\* collect() of the cycle in progress is past Add, StorePointer and the
\* sends: the newest entry of the history, the cell and the sends are its own
CycleDelivered ==
    /\ col.pc \in {"publish", "notify"} =>
           /\ HistoryVals # <<>>
           /\ HistoryVals[Len(HistoryVals)].Cycle = cycles
    /\ col.pc = "notify" =>
           /\ latestPtr = col.m
           /\ Len(pub) = cycles
           /\ col.idx \in 1..(Len(subscribers) + 1)

\* C6: every collect() that starts returns, whether or not some adapter
\* never returns; by then its snapshot is the newest entry of the history,
\* the value of the latest-pointer cell and was offered to every subscriber,
\* and at publication the field of each adapter that returned within the
\* ceiling holds its result and the field of each adapter still running
\* holds the default.
C6_CycleFinalizes ==
    /\ \A k \in 1..MaxCycles : (cycles = k) ~> (finalized >= k /\ Len(pub) >= k)
    /\ [](CycleDelivered /\ \A k \in 1..Len(pub) : FieldsAtPublication(k))

C6_Witness ==
    /\ finalized = 2
    /\ \E k \in 1..Len(pub) : pub[k].pending # {} /\ pub[k].returned # {}
    /\ late # {}

\* C7: a snapshot that can be reached through the latest-pointer cell or a
\* subscriber's channel has the value it had when it was published.
C7_PublishedNeverMutated ==
    \A p \in ({latestPtr} \cup ChanPtrs) \ {NIL} :
        Deep(Heap, p) = pub[objs[p].Cycle].val

\* C8: publications and history entries are in cycle order with
\* non-decreasing timestamps, and no reader of GetLatest got an older
\* snapshot, or an earlier timestamp, after a newer one.
C8_CycleOrder ==
    /\ \A r \in Readers : robs[r].ordered
    /\ \A i \in 1..Len(pub) : pub[i].cycle = i
    /\ \A i \in 1..(Len(pub) - 1) : pub[i].val.Timestamp <= pub[i + 1].val.Timestamp
    /\ \A i \in 1..(Len(HistoryVals) - 1) :
           /\ HistoryVals[i].Cycle < HistoryVals[i + 1].Cycle
           /\ HistoryVals[i].Timestamp <= HistoryVals[i + 1].Timestamp
    /\ latestPtr # NIL => objs[latestPtr].Cycle = Len(pub)

C8_Witness ==
    /\ \E r \in Readers : robs[r].last.cycle = 2 /\ robs[r].last.ts = 2
    /\ Len(HistoryVals) = 2
    /\ col.pc = "none"

\* C9: GetLatest can be called in every state, also while collect() waits
\* for its tasks; it returns nil exactly as long as nothing was published,
\* and once a reader got a snapshot the cell never yields nil again.
C9_LatestNeverBlocks ==
    /\ \A r \in Readers : ENABLED ReaderGetLatest(r)
    /\ (CollectorGetLatest(latestPtr) = NIL) <=> (pub = <<>>)
    /\ \A r \in Readers :
           robs[r].last # NoObs => CollectorGetLatest(latestPtr) # NIL

C9_Witness ==
    /\ col.pc = "wait"
    /\ cycles = 2
    /\ \E r \in Readers : robs[r].last.cycle = 1

\* C10: in notifySubscribers the driver can always take its next step; in
\* every step that moves on to the next subscriber, a
\* send to a full channel leaves that channel as it was, and a send to a
\* channel with room appends the snapshot of the cycle to it; no other
\* channel changes.
C10_NotifyNeverBlocks ==
    /\ [](col.pc = "notify" => ENABLED (NotifySend \/ CollectReturn))
    /\ [][(col.pc = "notify" /\ col'.pc = "notify" /\ col'.idx = col.idx + 1) =>
            LET ch == subscribers[col.idx]
            IN  /\ Len(chans[ch]) >= QueueCap => chans'[ch] = chans[ch]
                /\ Len(chans[ch]) < QueueCap =>
                       /\ Len(chans'[ch]) = Len(chans[ch]) + 1
                       /\ chans'[ch][Len(chans'[ch])] = col'.m
                       /\ col'.m # NIL
                /\ \A o \in Chans \ {ch} : chans'[o] = chans[o]]_vars

C10_Witness ==
    /\ col.pc = "notify"
    /\ col.idx = 2
    /\ Len(subscribers) >= 1
    /\ Len(chans[subscribers[1]]) = QueueCap
    /\ objs[chans[subscribers[1]][1]].Cycle < cycles

\* ------------------------------------------------------------ Start and Stop
\* the cycle of the snapshot at p in the heap objects o, 0 for nil
CycleAt(o, p) == IF p = NIL THEN 0 ELSE o[p].Cycle

\* the cycles of the snapshots channel contents q holds, oldest first
QueueCycles(o, q) == [i \in 1..Len(q) |-> CycleAt(o, q[i])]

\* no call of Start or Stop is in progress and the collector is stopped
Stopped == ctl = "idle" /\ ~running

\* C11: once Stop has returned (and on a collector never started) no driver
\* is left: no cycle is in progress and the loop goroutine is gone, a further
\* Stop has nothing to do, and every step taken while the collector stays
\* stopped starts no cycle, appends nothing to the history, leaves the latest
\* cell on the same snapshot and pushes nothing to any channel.
C11_StopIsFinal ==
    /\ [](Stopped => loop = "none" /\ col = NoCollect /\ ~ENABLED Stop)
    /\ [][(Stopped /\ ~running') =>
            /\ cycles' = cycles /\ pub' = pub /\ finalized' = finalized
            /\ rb'.head = rb.head /\ rb'.count = rb.count
            /\ \A i \in DOMAIN rb.data :
                  CycleAt(objs', rb'.data[i]) = CycleAt(objs, rb.data[i])
            /\ CycleAt(objs', latestPtr') = CycleAt(objs, latestPtr)
            /\ \A ch \in Chans :
                  \E n \in 0..Len(chans[ch]) :
                      QueueCycles(objs', chans'[ch]) =
                          SubSeq(QueueCycles(objs, chans[ch]), n + 1, Len(chans[ch]))]_vars

\* Stop has returned after a cycle whose late task is still running, with a
\* subscriber registered and a snapshot waiting in its channel
C11_Witness ==
    /\ Stopped /\ ctx.done /\ finalized >= 1
    /\ late # {}
    /\ \E ch \in Chans : ch \in Range(subscribers) /\ chans[ch] # <<>>

\* C12: Start on a running collector does nothing: it is not enabled while
\* running holds, so it starts no cycle and touches neither history, latest
\* nor subscribers.  Hence a cycle in progress belongs to the one driver there
\* is (Start's initial collect() before the loop exists, or the loop), and
\* every initial collect() begins on a stopped collector with no loop alive.
C12_StartIdempotent ==
    /\ []((running /\ ctl = "idle") =>
            ~ENABLED (\E f \in BOOLEAN, s \in SUBSET Faulty : Start(f, s)))
    /\ [](col # NoCollect =>
            \/ col.by = "start" /\ ctl = "starting" /\ loop = "none"
            \/ col.by = "loop" /\ loop = "collect")
    /\ [][(cycles' = cycles + 1 /\ col'.by = "start") =>
            Stopped /\ loop = "none" /\ col = NoCollect /\ running']_vars

\* the collector runs, its loop waits for the next tick, a subscriber is
\* registered and a further cycle could still be started
C12_Witness ==
    /\ running /\ ctl = "idle" /\ loop = "select" /\ cycles = 1 /\ cycles < MaxCycles
    /\ latestPtr # NIL /\ subscribers # <<>>

\* C13: whenever no call of Start or Stop is in progress, IsRunning() is true
\* exactly when the loop goroutine is alive.
C13_RunningIffLoopAlive == ctl = "idle" => (IsRunning <=> loop # "none")

\* the timer ticks the loop has taken
Ticks == now - 1

\* Stop has returned and Start was called once: every cycle but one is a tick
RunOver == Stopped /\ cycles >= 1 /\ cycles - Ticks = 1

C15_PanicContained ==
    /\ \A k \in 1..Len(pub) :
          /\ \A a \in pub[k].faulted : FieldOf(pub[k].val, a) = DefaultOf(a)
          /\ \A a \in pub[k].returned : FieldOf(pub[k].val, a) = ResultOf(a, k)
          /\ pub[k].faulted \cap pub[k].returned = {}
    /\ (col.pc = "wait" /\ (\E a \in DOMAIN col.tasks : col.tasks[a] = "panic")
                        /\ (\A a \in DOMAIN col.tasks : col.tasks[a] # "run"))
          => ENABLED (CollectDone \/ CollectTimeout)
    /\ (used.panics > 0 /\ running /\ ctl = "idle" /\ col = NoCollect)
          => /\ loop = "select"
             /\ cycles < MaxCycles => ENABLED LoopTick({})

\* the first cycle was published with the panicking adapter's field at its
\* default and the others written, and the loop has taken its next tick
C15_Witness ==
    /\ Len(pub) >= 1 /\ pub[1].faulted # {} /\ pub[1].returned # {}
    /\ finalized >= 1 /\ cycles = 2 /\ loop = "collect"

\* ---------------------------------------------------------------- subscribers
\* C16: whatever a channel holds was appended to the history and published
\* to the latest cell before it was pushed, so both already hold that cycle
\* or a later one; and the owner of a channel receives snapshots in strictly
\* increasing cycle order: what waits in the channel is in cycle order and
\* newer than the last snapshot the owner received.
C16_AppendPublishPush ==
    \A ch \in Chans :
        LET q == QueueCycles(objs, chans[ch])
        IN  /\ \A i \in 1..Len(q) :
                  /\ q[i] <= CycleAt(objs, CollectorGetLatest(latestPtr))
                  /\ HistoryVals # <<>>
                  /\ q[i] <= HistoryVals[Len(HistoryVals)].Cycle
            /\ \A i \in 1..(Len(q) - 1) : q[i] < q[i + 1]
            /\ q # <<>> => q[1] > sobs[ch].last

\* C17: once Unsubscribe(ch) has returned, and until ch is subscribed again,
\* ch holds no snapshot of a cycle published after that return.
C17_UnsubscribeIsFinal ==
    \A ch \in Chans :
        sobs[ch].unsubAt >= 0 =>
            \A i \in 1..Len(chans[ch]) :
                CycleAt(objs, chans[ch][i]) <= sobs[ch].unsubAt

\* ------------------------------------------------------------------ aggregates
\* the entries a window of n covers: the last min(n, size()) values added
Window(n) == LastN(added, Min(n, Size(rb)))

\* the arithmetic mean of the whole numbers in s, as a reduced fraction
Mean(s) == Quot(SumSeq(s), Len(s))

\* C18: on a non-empty store, GetAverage(n) with n >= 1 returns a snapshot
\* whose every averaged field is the arithmetic mean of that field over the
\* last min(n, size()) entries.
C18_AverageIsMean ==
    (agg.op = "average" /\ agg.n >= 1 /\ Size(rb) >= 1) =>
        LET w == Window(agg.n)
            over(f(_)) == [i \in 1..Len(w) |-> f(w[i])]
            cpu(m) == m.CPU.UsagePercent
            mem(m) == m.Memory.UsedPercent
            gpu(m) == m.GPU.UsagePercent
            tmp(m) == m.GPU.TemperatureC
            dsk(m) == m.Disk.ReadMBps
            net(m) == m.Network.DownloadKBps
        IN  /\ ~agg.res.isNil /\ ~agg.res.panic
            /\ cpu(agg.res.val) = Mean(over(cpu))
            /\ mem(agg.res.val) = Mean(over(mem))
            /\ gpu(agg.res.val) = Mean(over(gpu))
            /\ Quot(tmp(agg.res.val), 1) = Mean(over(tmp))
            /\ dsk(agg.res.val) = Mean(over(dsk))
            /\ net(agg.res.val) = Mean(over(net))

\* C19: on a non-empty store, GetMinMax(n) with n >= 1 returns for CPU %,
\* memory %, GPU % and GPU temperature a min that is the smallest and a max
\* that is the largest value of the field among the last min(n, size())
\* entries; in particular both are values of stored entries.
C19_MinMaxAreExtremes ==
    (agg.op = "minmax" /\ agg.n >= 1 /\ Size(rb) >= 1) =>
        LET w == Window(agg.n)
            lo == agg.res.min
            hi == agg.res.max
            extremes(f(_)) ==
                /\ \E i \in 1..Len(w) : f(lo) = f(w[i])
                /\ \A i \in 1..Len(w) : f(lo) <= f(w[i])
                /\ \E i \in 1..Len(w) : f(hi) = f(w[i])
                /\ \A i \in 1..Len(w) : f(hi) >= f(w[i])
            cpu(m) == m.CPU.UsagePercent
            mem(m) == m.Memory.UsedPercent
            gpu(m) == m.GPU.UsagePercent
            tmp(m) == m.GPU.TemperatureC
        IN  /\ ~lo.isNil /\ ~hi.isNil /\ ~agg.res.panic
            /\ extremes(cpu) /\ extremes(mem) /\ extremes(gpu) /\ extremes(tmp)

\* C20: on an empty store, or for a window n <= 0, GetAverage returns nil
\* and GetMinMax returns nil for both min and max; no call panics on a
\* division by zero.
C20_EmptyAggregates ==
    /\ ~panicked
    /\ (agg.op = "average" /\ (Size(rb) = 0 \/ agg.n <= 0)) =>
            agg.res.isNil /\ ~agg.res.panic
    /\ (agg.op = "minmax" /\ (Size(rb) = 0 \/ agg.n <= 0)) =>
            agg.res.min.isNil /\ agg.res.max.isNil /\ ~agg.res.panic

\* GetAverage over a window of the whole capacity on a store left empty by
\* Clear (or never filled) returned nil
C20_Witness ==
    /\ agg.op = "average" /\ agg.n = Capacity /\ Size(rb) = 0 /\ IsEmpty(rb)
    /\ agg.res.isNil

\* ------------------------------------------------ properties, third part
\* C21: every call to all(), also one that runs concurrently with add, returns
\* the complete contents the store held at one instant: the GetLast it runs
\* under the read lock returns every stored entry, or nothing when the store
\* was empty as the call began; it never returns a strict suffix.
C21_AllIsComplete ==
    \A c \in Consumers :
        pc[c] = "alllast" =>
            LET r == GetAll(Heap, rb, reg[c])
            IN  Len(r.refs) = Size(rb) \/ (reg[c] = 0 /\ r.refs = <<>>)

\* C22: clear() empties the store from any state: right after it size() is 0,
\* isEmpty() holds, latest() and last(n) return empty for every n, the
\* capacity is the one the store was created with, and the store is in the
\* very state of a freshly created store of that capacity, so that whatever
\* is added next behaves as on a new store.
C22_ClearEmpties ==
    lastOp = "clear" =>
        /\ Size(rb) = 0
        /\ IsEmpty(rb)
        /\ ~IsFull(rb)
        /\ LatestView = [empty |-> TRUE, vals |-> <<>>, panic |-> FALSE]
        /\ \A n \in (0 - 1)..(Capacity + 1) :
               LastView(n) = [vals |-> <<>>, panic |-> FALSE]
        /\ CapacityOf(rb) = Seconds(cfg.HistoryDuration)
        /\ rb = NewRingBuffer(CapacityOf(rb))

C22_Witness ==
    /\ lastOp = "clear"
    /\ Len(held) = CapacityOf(rb)
    /\ IsEmpty(rb)

\* C23: what a later GetLatest call and the owner of a subscriber channel get
\* for a cycle is the snapshot as it was published, whatever another consumer
\* did with the snapshot it obtained for that cycle.
C23_ConsumersIsolated ==
    /\ \A p \in {CollectorGetLatest(latestPtr)} \ {NIL} :
           Deep(Heap, p) = pub[objs[p].Cycle].val
    /\ \A ch \in Chans : \A i \in 1..Len(chans[ch]) :
           Deep(Heap, chans[ch][i]) = pub[objs[chans[ch][i]].Cycle].val

\* C24: a store created with a capacity <= 0, or by New from a history
\* duration below one second, has capacity 60 and size 0; every other store
\* has the capacity asked for; and no operation ever changes the capacity
\* of a store or the number of its slots.
C24_InvalidCapacityIs60 ==
    /\ [](agg.op \in {"NewRingBuffer", "New"} =>
             /\ Size(rb) = 0
             /\ IsEmpty(rb)
             /\ DOMAIN rb.data = 0..(CapacityOf(rb) - 1)
             /\ (agg.op = "NewRingBuffer" /\ agg.n <= 0) => CapacityOf(rb) = 60
             /\ (agg.op = "NewRingBuffer" /\ agg.n > 0) => CapacityOf(rb) = agg.n
             /\ (agg.op = "New" /\ agg.n < Second) => CapacityOf(rb) = 60
             /\ (agg.op = "New" /\ agg.n >= Second) =>
                    CapacityOf(rb) = agg.n \div Second)
    /\ [][/\ CapacityOf(rb)' = CapacityOf(rb)
          /\ DOMAIN rb'.data = DOMAIN rb.data]_vars

C24_Witness ==
    /\ CapacityOf(rb) = 60
    /\ Size(rb) = MaxAdds
    /\ lastOp = "last"
    /\ Len(held) = Capacity + 1

\* C25: whatever update interval the configuration holds, once Start has
\* returned the collection loop is alive for as long as the collector is
\* running, and creating its ticker raised no panic.
C25_DriverRuns ==
    (ctl = "idle" /\ running) => (loop # "none" /\ ~panicked)

C27_DisabledSkipped ==
    /\ col.pc # "none" =>
           /\ "GPU" \in DOMAIN col.tasks => (cfg.EnableGPU /\ gpuCollector)
           /\ "Processes" \in DOMAIN col.tasks => cfg.EnableProcesses
    /\ \A k \in 1..Len(pub) :
           /\ ~cfg.EnableGPU => "GPU" \notin pub[k].launched
           /\ (~gpuCollector /\ k = cycles) => "GPU" \notin pub[k].launched
           /\ ~cfg.EnableProcesses => "Processes" \notin pub[k].launched
           /\ "GPU" \notin pub[k].launched => pub[k].val.GPU = ZeroMetrics.GPU
           /\ "Processes" \notin pub[k].launched =>
                  pub[k].val.TopProcesses = SliceLit(<<>>)
    /\ LET launchedIn(k) == IF k <= Len(pub) THEN pub[k].launched
                                             ELSE DOMAIN col.tasks
       IN  /\ \A t \in late : t.a \in launchedIn(t.k)
           /\ \A p \in DOMAIN objs :
                  /\ "GPU" \notin launchedIn(objs[p].Cycle) =>
                         objs[p].GPU = ZeroMetrics.GPU
                  /\ "Processes" \notin launchedIn(objs[p].Cycle) =>
                         DeepSlice(Heap, objs[p].TopProcesses) = SliceLit(<<>>)

C27_Witness ==
    /\ cfg.EnableGPU
    /\ ~gpuCollector
    /\ ~cfg.EnableProcesses
    /\ Len(pub) = 2
    /\ "GPU" \in pub[1].launched
    /\ "GPU" \notin pub[2].launched
    /\ late # {}

\* C28: once notifySubscribers has dealt with a registered channel, the
\* element enqueued last in that channel, if it still holds one, is the
\* snapshot of the cycle being notified, also when the channel was full.
C28_LatestWins ==
    col.pc = "notify" =>
        \A j \in 1..Min(col.idx - 1, Len(subscribers)) :
            LET q == chans[subscribers[j]]
            IN  q # <<>> => objs[q[Len(q)]].Cycle = cycles

\* C29: the capacity of the history is the number of update intervals in
\* the history duration, for every valid configuration in which the
\* interval divides the duration.
C29_CapacityIsTicks ==
    (/\ cfg.UpdateInterval >= 100
     /\ cfg.HistoryDuration >= Second
     /\ cfg.HistoryDuration % cfg.UpdateInterval = 0) =>
        CapacityOf(rb) * cfg.UpdateInterval = cfg.HistoryDuration

\* C30: the top count the process collector works with lies in 1..50
\* whatever the configuration holds, and no snapshot lists more processes.
C30_TopCountClamped ==
    \E c \in {NewProcessCollector(cfg.TopProcessCount)} :
        /\ c.topCount \in 1..50
        /\ \A p \in DOMAIN objs :
               Len(DeepSlice(Heap, objs[p].TopProcesses).elems) <= c.topCount

\* ------------------------------------------------ properties, fourth part
\* C36: after every sequence of add and clear the ring buffer satisfies
\* 0 <= head < capacity, 0 <= count <= capacity, head = count while the
\* store is not full, the count slots ending just before head are set, and
\* size(), isEmpty() and isFull() report count, count = 0, count = capacity.
C36_Representation ==
    /\ rb.head \in 0..(rb.capacity - 1)
    /\ rb.count \in 0..rb.capacity
    /\ rb.count < rb.capacity => rb.head = rb.count
    /\ DOMAIN rb.data = 0..(rb.capacity - 1)
    /\ \A i \in 1..rb.count :
           rb.data[GoMod(rb.head - i + rb.capacity, rb.capacity)] # NIL
    /\ Size(rb) = Len(LastView(rb.capacity).vals)
    /\ Size(rb) = rb.count /\ rb.size = rb.count
    /\ IsEmpty(rb) <=> added = <<>>
    /\ IsFull(rb) <=> Len(added) >= rb.capacity

C36_Witness ==
    /\ lastOp = "add"
    /\ IsFull(rb)
    /\ rb.head = 1
    /\ Len(added) = rb.capacity + 1

\* what read operation op of store b returns over heap h, and the stored
\* snapshots slot by slot
ReadOf(h, b, op, n) ==
    CASE op = "latest"  -> LET l == GetLatest(h, b)
                           IN  IF l.ref = NIL THEN <<>> ELSE <<Deep(l.h, l.ref)>>
      [] op = "last"    -> LET r == GetLast(h, b, n) IN DeepSeq(r.h, r.refs)
      [] op = "all"     -> LET r == GetAll(h, b, b.count) IN DeepSeq(r.h, r.refs)
      [] op = "average" -> GetAverage(h, b, n)
      [] op = "minmax"  -> GetMinMax(h, b, n)
      [] op = "observe" -> <<Size(b), CapacityOf(b), IsEmpty(b), IsFull(b)>>
      [] op = "slots"   -> [i \in DOMAIN b.data |->
                              IF b.data[i] = NIL THEN <<>> ELSE <<Deep(h, b.data[i])>>]

C34_HistoryMatchesLatest ==
    (col.pc = "none" /\ finalized >= 1) =>
        /\ latestPtr # NIL
        /\ LatestView.vals = <<Deep(Heap, latestPtr)>>

\* C35: the tasks still in flight, those of the cycle in progress and those
\* abandoned at the ceiling of an earlier cycle, are never more than there
\* are adapters, and no adapter has two of them.
C35_OneTaskPerAdapter ==
    LET inCycle == IF col.pc = "wait"
                   THEN {a \in DOMAIN col.tasks : ~TaskOver(col.tasks[a])} ELSE {}
    IN  /\ Cardinality(late) + Cardinality(inCycle) <= Cardinality(Adapters)
        /\ \A t \in late : t.a \notin inCycle
        /\ \A t, u \in late : t.a = u.a => t = u

\* C32: every call of Stop returns: a Stop that found the collector running
\* returns after the cycle in flight, if any, has run to its end or to its
\* ceiling, whether or not the adapters it abandoned ever return; a Stop on
\* a stopped collector is over at once, it has nothing to wait for.
C32_StopReturns ==
    /\ (ctl = "stopping") ~> (ctl = "idle" /\ ~running)
    /\ [](Stopped => ~ENABLED Stop /\ loop = "none")

C32_Witness ==
    /\ ctl = "stopping"
    /\ loop = "collect"
    /\ col.pc = "wait"
    /\ \E a \in DOMAIN col.tasks : col.tasks[a] = "slow"

\* C33: however the Start and Stop calls of several goroutines interleave,
\* at most one goroutine writes the history and the latest cell (a loop that
\* is alive, or a Start in its initial collect()), no Stop waits for a loop
\* that nothing will cancel, and when no call is in progress a loop is alive
\* if and only if running is true.
C33_OneDriver ==
    LET writers == Cardinality(life.loops)
                     + Cardinality({t \in Callers : callers[t].pc = "collect"})
    IN  /\ writers <= 1
        /\ \A t \in Callers : callers[t].pc = "wait" =>
               life.loops \subseteq life.cancelled \cup {life.cancel}
        /\ (\A t \in Callers : callers[t].pc = "idle") =>
               (life.loops # {} <=> life.running)

\* C31: however often and from however many goroutines shutdown is called,
\* the components are stopped, the configuration saved, the logger closed
\* and the tray quit at most once each, and a shutdown that has begun goes
\* on to save the configuration, close the logger and quit the tray and
\* returns in every caller, whether or not the components' Stop() return.
C31_ShutdownOnce ==
    /\ [](/\ \A i \in DOMAIN Components : app.stopped[i] <= 1
          /\ app.saved <= 1 /\ app.logClosed <= 1 /\ app.trayQuit <= 1
          /\ Cardinality({t \in Requesters : req[t] \in {"select", "save"}}) <= 1)
    /\ (app.once = "running") ~>
           (app.saved = 1 /\ app.logClosed = 1 /\ app.trayQuit = 1)
    /\ \A t \in Requesters : (req[t] # "idle") ~> (req[t] = "idle")

C31_Witness ==
    /\ app.once = "done"
    /\ app.timedOut
    /\ app.stopper = 2
    /\ app.calls = MaxRequests
    /\ app.trayQuit = 1

C39_RegisterReturns ==
    /\ \A t \in Registrants : (regs[t].pc = "result") ~> (regs[t].pc = "idle")
    /\ [](\A t \in Registrants : \A i \in 1..Len(regs[t].got) :
              regs[t].got[i].recorded <=> regs[t].got[i].os)
====
